---- MODULE Spec2Model ----
(***************************************************************************)
(* A model of the document store of mongodb-storage (src/lib/storage.ts):  *)
(* the per-collection facade returned by makeStorage, the changelog        *)
(* builder createChangelog with the structural differ it calls, and the    *)
(* MongoDB collection the store reads and writes.                           *)
(*                                                                          *)
(* Documents are JavaScript objects: functions from key names to values.   *)
(* A scalar value is a record [k, v]: k is the JavaScript type ("str" a    *)
(* string, "oid" an ObjectId, "date" a Date, "num", "bool", "null",        *)
(* "undefined") and v its text.  The array field of the test schema,       *)
(* subResource, is a sequence of subdocuments; changelogs is a sequence of *)
(* changelog entries.                                                      *)
(***************************************************************************)
EXTENDS Integers, Sequences, FiniteSets, TLC

(***************************************************************************)
(* Bounds of the model.                                                    *)
(***************************************************************************)
MaxDocs == 2        \* insertOne calls in one behaviour
MaxHandles == 2     \* findOneAndUpdate / findOneSubdocumentAndUpdate calls that return a handle
MaxCommits == 2     \* invocations of commit closures, over all handles
MaxClock == 1       \* ticks of the wall clock
MaxStores == 2      \* makeStorage calls on the one collection
MaxClients == 2     \* connectDb calls
MaxDbCalls == 2     \* db() calls
MaxMany == 4        \* documents the harness inserts at once with insertMany
MaxLimit == 2       \* the limit argument of findMany, besides its default
MaxPage == 3        \* the page argument of findMany

VARIABLES
    collection,   \* the MongoDB collection: stored documents in natural order
    nextId,       \* the next _id the database assigns
    handles,      \* the {originalDocument, commit} closures handed to callers
    now,          \* the wall clock read by new Date()
    last,         \* the outcome of the latest call: [op, by, err, ret]
    applied,      \* history: per _id, the commit writes applied, in order
    GLOBAL_CONNECTION,  \* db-connector: the client connected, 0 for undefined
    clients,      \* the MongoClient each connectDb call made, by its state
    dbCalls,      \* the db() calls: resolved with a connection, or polling for one
    collectionNames,    \* the names of the collections of the database
    dbIndexes,    \* the live indexes of the collection
    boots         \* per store instance, its bootstrap: ensureCollection().then(ensureIndexes)

connVars == <<GLOBAL_CONNECTION, clients, dbCalls>>
bootVars == <<collectionNames, dbIndexes, boots>>
vars == <<collection, nextId, handles, now, last, applied, connVars, bootVars>>

(***************************************************************************)
(* Values.                                                                 *)
(***************************************************************************)
Str(s) == [k |-> "str", v |-> s]
Oid(s) == [k |-> "oid", v |-> s]

\* A Date, by the text toISOString gives of it; a number, by its digits.
Date(s) == [k |-> "date", v |-> s]
Num(s) == [k |-> "num", v |-> s]
False == [k |-> "bool", v |-> "false"]
Null == [k |-> "null", v |-> "null"]
Undefined == [k |-> "undefined", v |-> "undefined"]

\* A JavaScript array of scalars, as a filter may hold one.
Array(seq) == [k |-> "array", v |-> seq]

\* !!value is false: undefined, null, false, 0 and the empty string.
IsFalsy(value) == value \in {Undefined, Null, False, Num("0"), Str("")}

\* The 24-digit hexadecimal texts of the model: ObjectId.isValid holds of these.
HexIds == {"5e4189905dea6a0004a2a70d", "5e4189905dea6a0004a2a70e",
           "5eccd9fdb9f8a700231b8a40", "5eccd9fdb9f8a700231b8a41"}

DocA == "5e4189905dea6a0004a2a70d"
DocB == "5e4189905dea6a0004a2a70e"
SubA == "5eccd9fdb9f8a700231b8a40"
SubB == "5eccd9fdb9f8a700231b8a41"

\* The empty object {}.
EmptyDoc == [key \in {} |-> TRUE]

\* The array field of the test schema, the subdocumentPath of every call.
SubPath == "subResource"

\* Keys whose value is an array.
ArrayKeys == {"subResource", "changelogs"}

\* Object.keys order: the order in which the test documents are written.
KeyOrder == <<"_id", "documentId", "someField", "subResource", "changelogs">>
SubKeyOrder == <<"subResourceId", "hello">>

Keys(obj, order) == SelectSeq(order, LAMBDA key : key \in DOMAIN obj)

\* Object.assign(a, b)
Assign(a, b) ==
    [key \in DOMAIN a \cup DOMAIN b |-> IF key \in DOMAIN b THEN b[key] ELSE a[key]]

\* _.omit(obj, keys), and the delete operator
Omit(obj, keys) == [key \in DOMAIN obj \ keys |-> obj[key]]

\* _.cloneDeep: a copy sharing nothing with its argument; values of the model
\* are immutable, so the copy is the same value held in another place.
CloneDeep(obj) == obj

\* key.endsWith('Id') || key === '_id'
EndsWithId(key) == key \in {"_id", "documentId", "subResourceId"}

\* ObjectId.isValid
IsValidObjectId(s) == s.v \in HexIds

(***************************************************************************)
(* serialize: JSON.parse(JSON.stringify(document), reviver).  stringify    *)
(* turns every ObjectId into its hexadecimal string; the reviver turns the *)
(* valid ones under a key ending in Id back into an ObjectId, and a Date   *)
(* into the string toISOString gives of it; numbers, booleans and null     *)
(* come back as they were (no number of the model is under such a key).    *)
(***************************************************************************)
SerializeScalar(key, s) ==
    IF s.k \in {"num", "bool", "null"} THEN s
    ELSE IF EndsWithId(key) /\ IsValidObjectId(s) THEN Oid(s.v) ELSE Str(s.v)

SerializeSub(sub) == [key \in DOMAIN sub |-> SerializeScalar(key, sub[key])]

SerializeArray(arr) == [i \in 1..Len(arr) |-> SerializeSub(arr[i])]

\* A changelogs value passes through JSON unchanged: its entries hold strings.
serialize(document) ==
    [key \in DOMAIN document |->
        IF key = "changelogs" THEN document[key]
        ELSE IF key \in ArrayKeys THEN SerializeArray(document[key])
        ELSE SerializeScalar(key, document[key])]

(***************************************************************************)
(* The structural differ, diff(lhs, rhs) of deep-diff, on the shapes of    *)
(* the model: a document (keys to scalars and arrays of subdocuments), an  *)
(* array of subdocuments, a subdocument (keys to scalars).  An edit is a   *)
(* record of deep-diff: kind E (edited), N (new), D (deleted), A (array).  *)
(* Array indices in paths count from 0, as in JavaScript.                  *)
(***************************************************************************)
DiffEdit(path, l, r) == [kind |-> "E", path |-> path, lhs |-> l, rhs |-> r]
DiffNew(path, r) == [kind |-> "N", path |-> path, rhs |-> r]
DiffDeleted(path, l) == [kind |-> "D", path |-> path, lhs |-> l]
DiffArray(path, index, item) ==
    [kind |-> "A", path |-> path, index |-> index, item |-> item]

\* Two scalars: an edit unless they are the same value of the same type.
DiffScalar(path, l, r) == IF l = r THEN <<>> ELSE <<DiffEdit(path, l, r)>>

\* The keys of lhs in order, each against rhs; then the keys only rhs has.
RECURSIVE DiffSubKeys(_, _, _, _)
DiffSubKeys(path, l, r, keys) ==
    IF keys = <<>> THEN <<>>
    ELSE LET key == Head(keys)
             here == IF key \in DOMAIN l /\ key \in DOMAIN r
                         THEN DiffScalar(path \o <<key>>, l[key], r[key])
                     ELSE IF key \in DOMAIN l
                         THEN <<DiffDeleted(path \o <<key>>, l[key])>>
                     ELSE <<>>
         IN  here \o DiffSubKeys(path, l, r, Tail(keys))

RECURSIVE DiffSubNewKeys(_, _, _, _)
DiffSubNewKeys(path, l, r, keys) ==
    IF keys = <<>> THEN <<>>
    ELSE LET key == Head(keys)
             here == IF key \in DOMAIN r /\ key \notin DOMAIN l
                         THEN <<DiffNew(path \o <<key>>, r[key])>>
                     ELSE <<>>
         IN  here \o DiffSubNewKeys(path, l, r, Tail(keys))

DiffSubdocument(path, l, r) ==
    DiffSubKeys(path, l, r, SubKeyOrder) \o DiffSubNewKeys(path, l, r, SubKeyOrder)

\* rhs elements beyond lhs, from the last index down.
RECURSIVE DiffArrayNew(_, _, _, _)
DiffArrayNew(path, r, i, j) ==
    IF i <= j THEN <<>>
    ELSE <<DiffArray(path, i - 1, [kind |-> "N", rhs |-> r[i]])>>
         \o DiffArrayNew(path, r, i - 1, j)

\* lhs elements beyond rhs, from the last index down.
RECURSIVE DiffArrayDeleted(_, _, _, _)
DiffArrayDeleted(path, l, j, i) ==
    IF j <= i THEN <<>>
    ELSE <<DiffArray(path, j - 1, [kind |-> "D", lhs |-> l[j]])>>
         \o DiffArrayDeleted(path, l, j - 1, i)

\* The common positions, from the last one down to index 0.
RECURSIVE DiffArrayCommon(_, _, _, _)
DiffArrayCommon(path, l, r, i) ==
    IF i = 0 THEN <<>>
    ELSE DiffSubdocument(path \o <<i - 1>>, l[i], r[i])
         \o DiffArrayCommon(path, l, r, i - 1)

DiffArrays(path, l, r) ==
    LET common == IF Len(l) < Len(r) THEN Len(l) ELSE Len(r)
    IN  DiffArrayNew(path, r, Len(r), Len(l))
        \o DiffArrayDeleted(path, l, Len(l), Len(r))
        \o DiffArrayCommon(path, l, r, common)

DiffValue(key, l, r) ==
    IF key \in ArrayKeys THEN DiffArrays(<<key>>, l, r) ELSE DiffScalar(<<key>>, l, r)

RECURSIVE DiffKeys(_, _, _)
DiffKeys(l, r, keys) ==
    IF keys = <<>> THEN <<>>
    ELSE LET key == Head(keys)
             here == IF key \in DOMAIN l /\ key \in DOMAIN r
                         THEN DiffValue(key, l[key], r[key])
                     ELSE IF key \in DOMAIN l
                         THEN <<DiffDeleted(<<key>>, l[key])>>
                     ELSE <<>>
         IN  here \o DiffKeys(l, r, Tail(keys))

RECURSIVE DiffNewKeys(_, _, _)
DiffNewKeys(l, r, keys) ==
    IF keys = <<>> THEN <<>>
    ELSE LET key == Head(keys)
             here == IF key \in DOMAIN r /\ key \notin DOMAIN l
                         THEN <<DiffNew(<<key>>, r[key])>>
                     ELSE <<>>
         IN  here \o DiffNewKeys(l, r, Tail(keys))

\* diff(lhs, rhs); deep-diff returns undefined for no difference, which
\* createChangelog replaces by [] (difference || []).
diff(l, r) == DiffKeys(l, r, KeyOrder) \o DiffNewKeys(l, r, KeyOrder)

(***************************************************************************)
(* JSON.parse(JSON.stringify(difference)): every ObjectId held in an edit  *)
(* becomes its hexadecimal string; numbers, booleans and null stay.        *)
(***************************************************************************)
JsonScalar(s) == IF s.k \in {"num", "bool", "null"} THEN s ELSE Str(s.v)
JsonSub(sub) == [key \in DOMAIN sub |-> JsonScalar(sub[key])]
JsonArray(arr) == [i \in 1..Len(arr) |-> JsonSub(arr[i])]

\* The value at a path of the document: an array under an array key, a
\* scalar elsewhere.
JsonAt(path, value) ==
    IF Len(path) = 1 /\ path[1] \in ArrayKeys THEN JsonArray(value)
    ELSE JsonScalar(value)

JsonEdit(e) ==
    IF e.kind = "E" THEN DiffEdit(e.path, JsonScalar(e.lhs), JsonScalar(e.rhs))
    ELSE IF e.kind = "N" THEN DiffNew(e.path, JsonAt(e.path, e.rhs))
    ELSE IF e.kind = "D" THEN DiffDeleted(e.path, JsonAt(e.path, e.lhs))
    ELSE DiffArray(e.path, e.index,
            IF e.item.kind = "N" THEN [kind |-> "N", rhs |-> JsonSub(e.item.rhs)]
            ELSE [kind |-> "D", lhs |-> JsonSub(e.item.lhs)])

JsonEdits(edits) == [i \in 1..Len(edits) |-> JsonEdit(edits[i])]

(***************************************************************************)
(* createChangelog(rc, originalOrder, updates)                             *)
(***************************************************************************)

\* createChangelog as it would be were the operands of diff exchanged.
createChangelogReversed(rc, originalOrder, updates, clock) ==
    LET updatesOnOriginal == Assign(CloneDeep(originalOrder), updates)
        difference == diff(updatesOnOriginal, originalOrder)
    IN  [ip |-> rc.ip,
         token |-> rc.token,
         endpoint |-> rc.endpoint,
         timestamp |-> clock,
         changes |-> JsonEdits(difference)]

createChangelog(rc, originalOrder, updates, clock) ==
    LET updatesOnOriginal == Assign(CloneDeep(originalOrder), updates)
        difference == diff(originalOrder, updatesOnOriginal)
    IN  [ip |-> rc.ip,
         token |-> rc.token,
         endpoint |-> rc.endpoint,
         timestamp |-> clock,
         changes |-> JsonEdits(difference)]


(***************************************************************************)
(* The MongoDB collection, as the store uses it.  A filter is an object of *)
(* conditions, one per field; a single-document operation acts on the      *)
(* first match in natural order and is atomic.  A result that may be null  *)
(* is a sequence of no or one document.                                    *)
(***************************************************************************)
\* The strings the database compares, in their binary (lexicographic) order.
TextOrder ==
    <<"000000010000000000000000", "000000020000000000000000",
      "000000030000000000000000", "000000040000000000000000",
      "000000050000000000000000",
      "2020-05-26T13:02:21.435Z", "2020-05-27T13:02:21.435Z",
      "2020-05-28T13:02:21.435Z", "2020-05-30T13:02:21.435Z",
      "5e4189905dea6a0004a2a70d", "5e4189905dea6a0004a2a70e",
      "alza_cz", "amazon_de", "yomama">>

TextRank(text) == CHOOSE i \in 1..Len(TextOrder) : TextOrder[i] = text

\* One condition of a query on one field of a document.  A scalar is an
\* equality test, null (which the driver also sends for undefined) matches a
\* null or missing field; $in is membership; $gt, $gte, $lt, $lte compare
\* with values of the same BSON type only.  No array of the model holds a
\* scalar, so an array field satisfies none of these.
Satisfies(doc, key, cond) ==
    IF key \in ArrayKeys THEN FALSE
    ELSE IF cond.k \in {"null", "undefined"}
        THEN key \notin DOMAIN doc \/ doc[key].k = "null"
    ELSE IF key \notin DOMAIN doc THEN FALSE
    ELSE IF cond.k = "$in"
        THEN \E i \in 1..Len(cond.v) : doc[key] = cond.v[i]
    ELSE IF cond.k \in {"$gt", "$gte", "$lt", "$lte"}
        THEN /\ doc[key].k = cond.v.k
             /\ LET l == TextRank(doc[key].v)
                    r == TextRank(cond.v.v)
                IN  CASE cond.k = "$gt" -> l > r
                      [] cond.k = "$gte" -> l >= r
                      [] cond.k = "$lt" -> l < r
                      [] cond.k = "$lte" -> l <= r
    ELSE doc[key] = cond

Matches(doc, filter) ==
    \A key \in DOMAIN filter : Satisfies(doc, key, filter[key])

FirstMatch(coll, filter) ==
    LET hits == {i \in 1..Len(coll) : Matches(coll[i], filter)}
    IN  IF hits = {} THEN 0 ELSE CHOOSE i \in hits : \A j \in hits : i <= j

\* A projection that leaves every field in.
ProjectNothingOut(doc) == doc

\* projection {_id: 0}
Project(doc) == Omit(doc, {"_id"})

\* collection.findOne(filter, {projection: {_id: 0}})
DbFindOne(coll, filter) ==
    LET i == FirstMatch(coll, filter)
    IN  IF i = 0 THEN <<>> ELSE <<Project(coll[i])>>

\* collection.insertOne(doc): the database assigns _id; ops[0] is the stored document.
DbInsertOne(coll, doc, id) == Append(coll, Assign(doc, "_id" :> id))

\* ApplyUpdate as it would be were the $push left out of the write.
ApplyUpdateNoPush(doc, query) == Assign(doc, query.set)

\* ApplyUpdate as it would be were the array replaced by the pushed entry.
ApplyUpdateOverwrite(doc, query) ==
    Assign(Assign(doc, query.set),
           [key \in DOMAIN query.push |-> <<query.push[key]>>])

\* ApplyUpdate as it would be were the pushed entry put first in the array.
ApplyUpdatePrepend(doc, query) ==
    LET set == Assign(doc, query.set)
    IN  [key \in DOMAIN set \cup DOMAIN query.push |->
            IF key \in DOMAIN query.push
                THEN IF key \in DOMAIN set
                         THEN <<query.push[key]>> \o set[key]
                         ELSE <<query.push[key]>>
                ELSE set[key]]

\* ApplyUpdate as it would be were the $set left out of the write.
ApplyUpdateNoSet(doc, query) ==
    [key \in DOMAIN doc \cup DOMAIN query.push |->
        IF key \in DOMAIN query.push
            THEN IF key \in DOMAIN doc
                     THEN Append(doc[key], query.push[key])
                     ELSE <<query.push[key]>>
            ELSE doc[key]]

\* ApplyUpdate as it would be were a $set of the array of subdocuments not
\* written over an array the document has.
ApplyUpdateKeepsArray(doc, query) ==
    LET set == Assign(doc, IF SubPath \in DOMAIN doc
                               THEN Omit(query.set, {SubPath}) ELSE query.set)
    IN  [key \in DOMAIN set \cup DOMAIN query.push |->
            IF key \in DOMAIN query.push
                THEN IF key \in DOMAIN set
                         THEN Append(set[key], query.push[key])
                         ELSE <<query.push[key]>>
                ELSE set[key]]

\* $set and $push applied to one document.
ApplyUpdate(doc, query) ==
    LET set == Assign(doc, query.set)
    IN  [key \in DOMAIN set \cup DOMAIN query.push |->
            IF key \in DOMAIN query.push
                THEN IF key \in DOMAIN set
                         THEN Append(set[key], query.push[key])
                         ELSE <<query.push[key]>>
                ELSE set[key]]

\* An update whose $set names no field ("'$set' is empty").
EmptyModifier(query) == DOMAIN query.set = {}

\* findOneAndUpdate as it would be with {upsert: true}: with no match, a
\* document made of the filter and the update is inserted and returned.
DbFindOneAndUpdateUpsert(coll, filter, query) ==
    LET i == FirstMatch(coll, filter)
        updated == ApplyUpdate(IF i = 0 THEN Assign(filter, "_id" :> 0) ELSE coll[i],
                               query)
    IN  IF DOMAIN query.set \cap DOMAIN query.push # {} \/ EmptyModifier(query)
            THEN [coll |-> coll, value |-> <<>>, id |-> 0, err |-> "MongoError"]
        ELSE [coll |-> IF i = 0 THEN Append(coll, updated)
                       ELSE [coll EXCEPT ![i] = updated],
              value |-> <<Project(updated)>>,
              id |-> updated["_id"],
              err |-> ""]

\* collection.findOneAndUpdate(filter, query, {projection: {_id: 0},
\* returnOriginal: false}): no upsert.  Two operators on one path are a
\* conflict, and a $set of no field is malformed to the MongoDB 4 server
\* the store runs against: the database rejects both without writing.
DbFindOneAndUpdate(coll, filter, query) ==
    LET i == FirstMatch(coll, filter)
    IN  IF DOMAIN query.set \cap DOMAIN query.push # {} \/ EmptyModifier(query)
            THEN [coll |-> coll, value |-> <<>>, id |-> 0, err |-> "MongoError"]
        ELSE IF i = 0
            THEN [coll |-> coll, value |-> <<>>, id |-> 0, err |-> ""]
        ELSE LET updated == ApplyUpdate(coll[i], query)
             IN  [coll |-> [coll EXCEPT ![i] = updated],
                  value |-> <<Project(updated)>>,
                  id |-> coll[i]["_id"],
                  err |-> ""]

\* collection.deleteMany(filter)
DbDeleteMany(coll, filter) == SelectSeq(coll, LAMBDA doc : ~Matches(doc, filter))

\* The $unwind of the aggregation: one result per element of the array at
\* subResource of every matching parent, parents in natural order, elements
\* in array order; a parent without the field, or with an empty array, gives
\* none.  A result is the parent with the element in the place of the array.
RECURSIVE Unwind(_, _)
Unwind(coll, filterParent) ==
    IF coll = <<>> THEN <<>>
    ELSE LET doc == Head(coll)
             here == IF Matches(doc, filterParent) /\ SubPath \in DOMAIN doc
                         THEN [i \in 1..Len(doc[SubPath]) |->
                                  Assign(doc, SubPath :> doc[SubPath][i])]
                         ELSE <<>>
         IN  here \o Unwind(Tail(coll), filterParent)

\* {$project: {[subdocumentPath]: 1}}: the element, and the _id with it.
ProjectPath(doc) == [key \in {"_id", SubPath} \cap DOMAIN doc |-> doc[key]]

(***************************************************************************)
(* The store made by makeStorage<ITest>('test', ..., TestStorageSchema, [])*)
(***************************************************************************)

\* validate as it would be were only the presence of the required keys tested.
validateKeysOnly(document) == {"documentId", "someField"} \subseteq DOMAIN document

\* validate: Joi.validate against TestStorageSchema, changelogs optional.
ValidSub(sub) ==
    /\ {"subResourceId", "hello"} \subseteq DOMAIN sub
    /\ sub["subResourceId"].k = "oid"
    /\ sub["hello"].k = "str"

validate(document) ==
    /\ {"documentId", "someField"} \subseteq DOMAIN document
    /\ document["documentId"].k = "oid"
    /\ document["someField"].k = "str"
    /\ SubPath \in DOMAIN document =>
           \A i \in 1..Len(document[SubPath]) : ValidSub(document[SubPath][i])

\* mapDocumentFromDb: convertObjectWithPattern turns the sub-objects that
\* have the keys of MoneySchema into Money values; no value of the test
\* schema is such an object, so every document of the model maps to itself.
mapDocumentFromDb(doc) == doc

\* subdocumentMatch: the subdocument filter, each key prefixed by the path,
\* tested on an unwound element.
MatchesSub(unwound, filterSubdocuments) ==
    Matches(unwound[SubPath], filterSubdocuments)

\* Array.prototype.find: the index of the first element passing the
\* predicate, 0 for undefined.  A predicate of the model tests subResourceId.
ArrayFind(arr, predicate) ==
    LET hits == {i \in 1..Len(arr) : arr[i]["subResourceId"] = predicate}
    IN  IF hits = {} THEN 0 ELSE CHOOSE i \in hits : \A j \in hits : i <= j

(***************************************************************************)
(* Inputs.                                                                 *)
(***************************************************************************)
RcA == [ip |-> "192.168.0.66", token |-> "******X-9a8dF2", endpoint |-> "POST /resources"]
RcB == [ip |-> "10.0.0.7", token |-> "******Y-1b2c3d", endpoint |-> "PUT /resources"]
RequestContexts == {RcA, RcB}
RcOf(h) == IF h % 2 = 1 THEN RcA ELSE RcB

\* A changelogs value a caller puts into its own input.
ForgedChangelogs ==
    <<[ip |-> "6.6.6.6", token |-> "forged", endpoint |-> "forged",
       timestamp |-> 0, changes |-> <<>>]>>

TwoSubs ==
    <<[subResourceId |-> Oid(SubA), hello |-> Str("it's me")],
      [subResourceId |-> Oid(SubB), hello |-> Str("how are you")]>>

\* The test document with its two subdocuments, and one without the array
\* whose caller put a changelogs value of its own into it.
ValidDocuments ==
    {[documentId |-> Oid(DocA), someField |-> Str("yomama"), subResource |-> TwoSubs],
     [documentId |-> Oid(DocB), someField |-> Str("yomama"),
      changelogs |-> ForgedChangelogs]}

InvalidDocuments ==
    {[documentId |-> Oid(DocA)],
     [documentId |-> Str("not an id"), someField |-> Str("yomama")]}

Documents == ValidDocuments \cup InvalidDocuments

\* The documents inserted before the reads: those above and one whose array
\* is empty.
EmptyArrayDocument ==
    [documentId |-> Oid(DocB), someField |-> Str("yomama"), subResource |-> <<>>]

ReadDocuments == Documents \cup {EmptyArrayDocument}

Filters ==
    {[someField |-> Str("yomama")]}
    \cup {[documentId |-> Oid(d)] : d \in {DocA, DocB}}

DeleteFilters == {EmptyDoc}

FetchFilters == {[someField |-> Str("yomama")], [documentId |-> Oid(DocA)]}

SubFilters == {EmptyDoc, [subResourceId |-> Oid(SubB)], [hello |-> Str("nobody")]}

Predicates == {Oid(SubB), Oid("5eccd9fdb9f8a700231b8a4f")}

\* The updates a caller passes to commit as an object of its own.
Updates ==
    {[someField |-> Str("yodaddy")],
     [someField |-> Str("yo"), changelogs |-> ForgedChangelogs]}

\* The dates of the orders of the test of findMany.
May26 == "2020-05-26T13:02:21.435Z"
May27 == "2020-05-27T13:02:21.435Z"
May28 == "2020-05-28T13:02:21.435Z"
May30 == "2020-05-30T13:02:21.435Z"

\* The two orders that test inserts, with the fields findMany's filters name
\* and the fields the schema of the store requires.
OrderDocuments ==
    {[documentId |-> Oid(DocA), someField |-> Str("yomama"),
      channel |-> Str("alza_cz"), unshippedCount |-> Num("0"),
      purchaseDate |-> Date(May26), lastChanged |-> Date(May26),
      latestShipDate |-> Date(May28)],
     [documentId |-> Oid(DocB), someField |-> Str("yomama"),
      channel |-> Str("amazon_de"), unshippedCount |-> Num("2"),
      purchaseDate |-> Date(May28), lastChanged |-> Date(May28),
      latestShipDate |-> Date(May30)]}

\* The documents of the pagination test in the order it inserts them, by
\* the text of their resourceId, and one more.
PageIds ==
    <<"000000040000000000000000", "000000010000000000000000",
      "000000030000000000000000", "000000020000000000000000",
      "000000050000000000000000">>

PageDocument(i) == [resourceId |-> Oid(PageIds[i]), lang |-> Str("lang")]

\* Filters with a falsy value in them.
FalsyFilters ==
    {[channel |-> Str("alza_cz"), unshippedCount |-> Num("0")],
     [unshippedCount |-> Num("0")],
     [status |-> Undefined],
     [status |-> Null],
     [status |-> False],
     [someField |-> Str("")]}

\* Filters with a date under one of the three operator names.
DateFilters ==
    {[purchasedAfter |-> Date(May26)], [purchasedAfter |-> Date(May27)],
     [updatedAfter |-> Date(May26)],
     [shouldShipBy |-> Date(May28)], [shouldShipBy |-> Date(May30)]}

\* Filters with a date under another name.
OtherDateFilters == {[purchaseDate |-> Date(May26)]}

ManyFilters ==
    {EmptyDoc,
     [channel |-> Str("alza_cz")],
     [channel |-> Array(<<Str("alza_cz"), Str("amazon_de")>>)]}
    \cup FalsyFilters \cup DateFilters \cup OtherDateFilters

\* Sort documents: none, or one field with its direction.
Sorts == {<<>>, <<<<"resourceId", -1>>>>, <<<<"documentId", -1>>>>}

DefaultLimit == 50
Limits == 1..MaxLimit \cup {DefaultLimit}
Pages == 1..MaxPage

(***************************************************************************)
(* State.                                                                  *)
(***************************************************************************)
Handles == 1..MaxHandles

NoQuery == [set |-> EmptyDoc, push |-> EmptyDoc]

\* A handle no call has returned yet.
FreeHandle ==
    [state |-> "free", rc |-> RcA, filter |-> EmptyDoc,
     originalDocument |-> EmptyDoc,   \* the closure's originalDocument
     reference |-> EmptyDoc,          \* the deep copy returned to the caller
     subIndex |-> 0,                  \* the element subdocumentReference is, 0 for none
     query |-> NoQuery,               \* the updateQuery of a commit in flight
     commits |-> 0,                   \* invocations of commit so far
     fetchedId |-> 0,                 \* history: the _id of the document fetched
     fetchedAt |-> 0]                 \* history: commits applied to it before the fetch

\* The outcome of a call: the operation, the handle it concerns (0 for none),
\* the error it threw ("" for none) and the values it returned.
Result(op, by, err, ret) == [op |-> op, by |-> by, err |-> err, ret |-> ret]

(***************************************************************************)
(* The connection of db-connector and the database's catalogue.            *)
(***************************************************************************)
Clients == 1..MaxClients
DbCalls == 1..MaxDbCalls
Stores == 1..MaxStores

\* GLOBAL_CONNECTION before any assignment to it.
NoConnection == 0

\* A db() call not made yet.  waited is history: the call found no connection
\* and set a timer.
NoDbCall == [pc |-> "idle", value |-> NoConnection, waited |-> FALSE]

\* collectionName of the stores of the model.
CollectionName == "storageTestCollection"

\* Key patterns, each the sequence of its <<field, direction>> pairs, and
\* the name the database gives an index of that key.
IdKey == <<<<"_id", 1>>>>
SomeFieldKey == <<<<"someField", -1>>>>
CompanyKey == <<<<"companyId", 1>>>>

IndexName(key) ==
    IF key = IdKey THEN "_id_"
    ELSE IF key = SomeFieldKey THEN "someField_-1"
    ELSE "companyId_1"

\* An index as listIndexes reports it, and the primary-key index that every
\* collection has from its creation.
LiveIndex(key) == [key |-> key, name |-> IndexName(key)]
PrimaryIndex == LiveIndex(IdKey)

\* An IndexSpecification as a caller of makeStorage writes it.
someFieldIndex == [key |-> SomeFieldKey]
companyIndex == [key |-> CompanyKey]

\* The desired index sets stores are made with.
DesiredSets ==
    {{}, {someFieldIndex}, {someFieldIndex, companyIndex}, {[key |-> IdKey], companyIndex}}

\* The bootstrap of a store not made yet.
NoBoot ==
    [pc |-> "idle",
     indexes |-> {},          \* the indexes argument of makeStorage
     newIndexes |-> {},       \* ensureIndexes: to create
     removedIndexes |-> {},   \* ensureIndexes: still to drop
     issued |-> {},           \* history: the catalogue commands it has sent
     alone |-> FALSE,         \* history: no other bootstrap ran since it began
     converged |-> FALSE]     \* history: the catalogue was as desired when it began

\* collection() as it would be were it to await the bootstrap of a store.
collectionAfterBootstrap ==
    GLOBAL_CONNECTION # NoConnection /\ \E b \in Stores : boots[b].pc = "done"

\* db() resolves at once: a connection is there.
Connected == GLOBAL_CONNECTION # NoConnection

\* collection(): (await db()).collection(collectionName) resolves once db() does.
collectionResolves == Connected

\* The state once the test harness has connected: an empty database, no
\* store bootstrapping.
Init ==
    /\ collection = <<>>
    /\ nextId = 1
    /\ handles = [h \in Handles |-> FreeHandle]
    /\ now = 0
    /\ last = Result("none", 0, "", <<>>)
    /\ applied = [id \in 1..MaxDocs |-> <<>>]
    /\ GLOBAL_CONNECTION = 1
    /\ clients = [c \in Clients |-> IF c = 1 THEN "connected" ELSE "none"]
    /\ dbCalls = [d \in DbCalls |-> NoDbCall]
    /\ collectionNames = {}
    /\ dbIndexes = {}
    /\ boots = [b \in Stores |-> NoBoot]


(***************************************************************************)
(* The operations of the store.                                            *)
(***************************************************************************)

\* insertedDocument with the arguments of Object.assign exchanged: the
\* caller's own changelogs value is kept.
insertedDocumentReversed(rc, document, clock) ==
    Assign([changelogs |-> <<createChangelog(rc, EmptyDoc, EmptyDoc, clock)>>],
           serialize(document))

\* The document insertOne hands to the database: the serialized input with
\* a changelog of one entry, of empty changes, assigned over it.
insertedDocument(rc, document, clock) ==
    Assign(serialize(document),
           [changelogs |-> <<createChangelog(rc, EmptyDoc, EmptyDoc, clock)>>])

\* The catalogue once the collection is there: the database makes a
\* collection that is written to or created, with its primary-key index.
DbCreated(names) == names \cup {CollectionName}
DbCreatedIndexes(names, indexes) ==
    IF CollectionName \in names THEN indexes ELSE {PrimaryIndex}

\* insertOne(rc, document)
InsertOne(rc, document) ==
    /\ nextId <= MaxDocs
    /\ collectionResolves
    /\ IF ~validate(document)
           THEN /\ last' = Result("insertOne", 0, "ValidationError", <<>>)
                /\ UNCHANGED <<collection, nextId, collectionNames, dbIndexes>>
           ELSE LET stored == insertedDocument(rc, document, now)
                    coll == DbInsertOne(collection, stored, nextId)
                    op0 == coll[Len(coll)]
                IN  /\ collection' = coll
                    /\ nextId' = nextId + 1
                    /\ collectionNames' = DbCreated(collectionNames)
                    /\ dbIndexes' = DbCreatedIndexes(collectionNames, dbIndexes)
                    /\ last' = Result("insertOne", 0, "",
                                      <<mapDocumentFromDb(Omit(op0, {"_id"}))>>)
    /\ UNCHANGED <<handles, now, applied, connVars, boots>>

\* findOne(filter): the outcome of the call.
findOne(coll, filter) ==
    LET foundDocument == DbFindOne(coll, filter)
    IN  IF foundDocument = <<>>
            THEN Result("findOne", 0, "NotFoundError", <<>>)
            ELSE Result("findOne", 0, "", <<mapDocumentFromDb(foundDocument[1])>>)

FindOne(filter) ==
    /\ collectionResolves
    /\ last' = findOne(collection, filter)
    /\ UNCHANGED <<collection, nextId, handles, now, applied, connVars, bootVars>>

\* The documents the aggregation of findManySubdocuments returns.
aggregate(coll, filterParent, filterSubdocuments) ==
    LET matched == SelectSeq(Unwind(coll, filterParent),
                             LAMBDA unwound : MatchesSub(unwound, filterSubdocuments))
    IN  [i \in 1..Len(matched) |-> ProjectPath(matched[i])]

\* findManySubdocuments as it would be without its last map: the documents
\* of the aggregation, each an _id with one element under the path.
findManySubdocumentsWrapped(coll, filterParent, filterSubdocuments) ==
    LET docs == aggregate(coll, filterParent, filterSubdocuments)
    IN  [i \in 1..Len(docs) |-> mapDocumentFromDb(docs[i])]

\* findManySubdocuments(subdocumentPath, filterParent, filterSubdocuments)
findManySubdocuments(coll, filterParent, filterSubdocuments) ==
    LET docs == aggregate(coll, filterParent, filterSubdocuments)
    IN  [i \in 1..Len(docs) |-> mapDocumentFromDb(docs[i])[SubPath]]

FindManySubdocuments(filterParent, filterSubdocuments) ==
    /\ collectionResolves
    /\ last' = Result("findManySubdocuments", 0, "",
                      findManySubdocuments(collection, filterParent, filterSubdocuments))
    /\ UNCHANGED <<collection, nextId, handles, now, applied, connVars, bootVars>>

\* findOneSubdocument without its test of subdoc: undefined is returned.
findOneSubdocumentUndefined(coll, filterParent, filterSubdocuments) ==
    LET found == findManySubdocuments(coll, filterParent, filterSubdocuments)
    IN  Result("findOneSubdocument", 0, "",
               IF found = <<>> THEN <<>> ELSE <<found[1]>>)

\* findOneSubdocument(subdocumentPath, filterParent, filterSubdocuments)
findOneSubdocument(coll, filterParent, filterSubdocuments) ==
    LET found == findManySubdocuments(coll, filterParent, filterSubdocuments)
    IN  IF found = <<>>
            THEN Result("findOneSubdocument", 0, "NotFoundError", <<>>)
            ELSE Result("findOneSubdocument", 0, "", <<found[1]>>)

FindOneSubdocument(filterParent, filterSubdocuments) ==
    /\ collectionResolves
    /\ last' = findOneSubdocument(collection, filterParent, filterSubdocuments)
    /\ UNCHANGED <<collection, nextId, handles, now, applied, connVars, bootVars>>

\* The handle a call returns next: handles are taken in order.
IsNextHandle(h) ==
    /\ handles[h].state = "free"
    /\ \A g \in Handles : g < h => handles[g].state # "free"

\* The closure findOneAndUpdate returns: originalDocument as fetched, and
\* the deep copy of it handed to the caller.
OpenHandle(rc, filter, originalDocument, subIndex) ==
    LET i == FirstMatch(collection, filter)
    IN  [FreeHandle EXCEPT
            !.state = "open", !.rc = rc, !.filter = filter,
            !.originalDocument = originalDocument,
            !.reference = CloneDeep(originalDocument),
            !.subIndex = subIndex,
            !.fetchedId = collection[i]["_id"],
            !.fetchedAt = Len(applied[collection[i]["_id"]])]

\* findOneAndUpdate(rc, filter)
FindOneAndUpdate(h, rc, filter) ==
    /\ IsNextHandle(h)
    /\ collectionResolves
    /\ LET found == findOne(collection, filter)
       IN  IF found.err # ""
               THEN /\ last' = Result("findOneAndUpdate", 0, found.err, <<>>)
                    /\ UNCHANGED handles
               ELSE LET opened == OpenHandle(rc, filter, found.ret[1], 0)
                    IN  /\ handles' = [handles EXCEPT ![h] = opened]
                        /\ last' = Result("findOneAndUpdate", h, "",
                                          <<opened.reference>>)
    /\ UNCHANGED <<collection, nextId, now, applied, connVars, bootVars>>

\* findOneSubdocumentAndUpdate(rc, filterParent, subdocumentPath, predicate)
FindOneSubdocumentAndUpdate(h, rc, filterParent, predicate) ==
    /\ IsNextHandle(h)
    /\ collectionResolves
    /\ LET found == findOne(collection, filterParent)
           op == "findOneSubdocumentAndUpdate"
       IN  IF found.err # ""
               THEN /\ last' = Result(op, 0, found.err, <<>>)
                    /\ UNCHANGED handles
           ELSE IF SubPath \notin DOMAIN found.ret[1]
               THEN /\ last' = Result(op, 0, "TypeError", <<>>)
                    /\ UNCHANGED handles
           ELSE LET index == ArrayFind(CloneDeep(found.ret[1])[SubPath], predicate)
                    opened == OpenHandle(rc, filterParent, found.ret[1], index)
                IN  IF index = 0
                        THEN /\ last' = Result(op, 0, "NotFoundError", <<>>)
                             /\ UNCHANGED handles
                        ELSE /\ handles' = [handles EXCEPT ![h] = opened]
                             /\ last' = Result(op, h, "",
                                   <<opened.reference, opened.reference[SubPath][index]>>)
    /\ UNCHANGED <<collection, nextId, now, applied, connVars, bootVars>>

\* What callers assign to a document reference and to a subdocument reference.
Mutations == {[someField |-> Str("yodaddy")]}
SubMutations == {[hello |-> Str("can you hear me")]}

\* MutateDocumentReference as it would be were the reference live storage:
\* the assignment is written to the document the filter matches.
MutateDocumentReferenceWriteThrough(h, mutation) ==
    /\ handles[h].state = "open"
    /\ handles[h].commits = 0
    /\ handles' = [handles EXCEPT ![h].reference = Assign(@, mutation)]
    /\ LET i == FirstMatch(collection, handles[h].filter)
       IN  collection' = IF i = 0 THEN collection
                         ELSE [collection EXCEPT ![i] = Assign(@, mutation)]
    /\ UNCHANGED <<nextId, now, last, applied, connVars, bootVars>>

\* MutateDocumentReference as it would be were the document handed to the
\* caller the closure's own originalDocument (no cloneDeep): the assignment
\* is in the original too.
MutateDocumentReferenceAliased(h, mutation) ==
    /\ handles[h].state = "open"
    /\ handles[h].commits = 0
    /\ handles' = [handles EXCEPT ![h].reference = Assign(@, mutation),
                                  ![h].originalDocument = Assign(@, mutation)]
    /\ UNCHANGED <<collection, nextId, now, last, applied, connVars, bootVars>>

\* Object.assign(documentReference, mutation), before commit is invoked.
MutateDocumentReference(h, mutation) ==
    /\ handles[h].state = "open"
    /\ handles[h].commits = 0
    /\ handles' = [handles EXCEPT ![h].reference = Assign(@, mutation)]
    /\ UNCHANGED <<collection, nextId, now, last, applied, connVars, bootVars>>

\* Object.assign(subdocumentReference, mutation): subdocumentReference is the
\* element of documentReference[subdocumentPath] that find returned, so the
\* assignment changes that element.
MutateSubdocumentReference(h, mutation) ==
    /\ handles[h].state = "open"
    /\ handles[h].commits = 0
    /\ handles[h].subIndex # 0
    /\ handles' = [handles EXCEPT
                      ![h].reference[SubPath][handles[h].subIndex] = Assign(@, mutation)]
    /\ UNCHANGED <<collection, nextId, now, last, applied, connVars, bootVars>>

\* The commit invocations made so far, over all handles.
RECURSIVE SumCommits(_)
SumCommits(h) == IF h = 0 THEN 0 ELSE handles[h].commits + SumCommits(h - 1)
Invocations ==
    SumCommits(MaxHandles) + Cardinality({h \in Handles : handles[h].state = "committing"})

\* delete object['changelogs']
StripChangelogs(object) == Omit(object, {"changelogs"})

\* updateQuery as it would be were the closure's originalDocument the very
\* object handed to the caller (no cloneDeep): the caller's mutations are
\* in the original the changelog is computed from.
updateQueryAliased(rc, originalDocument, documentUpdate, clock) ==
    LET serializedChanges == serialize(documentUpdate)
        changelog == createChangelog(rc, serializedChanges, serializedChanges, clock)
    IN  [set |-> serializedChanges, push |-> [changelogs |-> changelog]]

\* The updateQuery of commit, from the stripped original and update.
updateQuery(rc, originalDocument, documentUpdate, clock) ==
    LET serializedChanges == serialize(documentUpdate)
        serializedOriginal == serialize(originalDocument)
        changelog == createChangelog(rc, serializedOriginal, serializedChanges, clock)
    IN  [set |-> serializedChanges, push |-> [changelogs |-> changelog]]

\* commit(documentUpdate) up to its database call: isReference tells that
\* the caller passes the document reference itself, which commit strips in place.
CommitBuild(h, documentUpdate, isReference) ==
    /\ handles[h].state = "open"
    /\ Invocations < MaxCommits
    /\ LET originalDocument == StripChangelogs(handles[h].originalDocument)
           update == StripChangelogs(documentUpdate)
       IN  handles' = [handles EXCEPT
               ![h].state = "committing",
               ![h].originalDocument = originalDocument,
               ![h].reference = IF isReference THEN update ELSE @,
               ![h].query = updateQuery(handles[h].rc, originalDocument, update, now)]
    /\ UNCHANGED <<collection, nextId, now, last, applied, connVars, bootVars>>

\* commit(documentReference)
CommitReference(h) == CommitBuild(h, handles[h].reference, TRUE)

\* commit(update), update an object of the caller's own
CommitUpdate(h, update) == CommitBuild(h, update, FALSE)

\* Whether a commit of handle h has been applied to a document.
Committed(h) ==
    \E id \in DOMAIN applied : \E p \in 1..Len(applied[id]) : applied[id][p].by = h

\* commitResult as it would be were the closure to take effect once only.
commitResultOneShot(h) ==
    IF Committed(h)
        THEN [coll |-> collection, value |-> <<>>, id |-> 0, err |-> ""]
        ELSE DbFindOneAndUpdate(collection, handles[h].filter, handles[h].query)

\* The database call of commit: the closure's filter and the updateQuery.
commitResult(h) ==
    DbFindOneAndUpdate(collection, handles[h].filter, handles[h].query)

\* The database call of commit and its outcome.
CommitApply(h) ==
    /\ handles[h].state = "committing"
    /\ collectionResolves
    /\ LET result == commitResult(h)
       IN  IF result.err # ""
               THEN /\ last' = Result("commit", h, result.err, <<>>)
                    /\ UNCHANGED <<collection, applied>>
           ELSE IF result.value = <<>>
               THEN /\ last' = Result("commit", h, "UpdateError", <<>>)
                    /\ UNCHANGED <<collection, applied>>
           ELSE /\ collection' = result.coll
                /\ last' = Result("commit", h, "", <<mapDocumentFromDb(result.value[1])>>)
                /\ applied' = [applied EXCEPT ![result.id] =
                       Append(@, [by |-> h, entry |-> handles[h].query.push["changelogs"]])]
    /\ handles' = [handles EXCEPT ![h].state = "open",
                                  ![h].commits = @ + 1,
                                  ![h].query = NoQuery]
    /\ UNCHANGED <<nextId, now, connVars, bootVars>>

\* deleteMany(filter), issued on the collection by the test harness
DeleteMany(filter) ==
    /\ collection # <<>>
    /\ Connected
    /\ collection' = DbDeleteMany(collection, filter)
    /\ last' = Result("deleteMany", 0, "", <<>>)
    /\ UNCHANGED <<nextId, handles, now, applied, connVars, bootVars>>

\* The wall clock advances.
Tick ==
    /\ now < MaxClock
    /\ now' = now + 1
    /\ UNCHANGED <<collection, nextId, handles, last, applied, connVars, bootVars>>

(***************************************************************************)
(* Bootstrap: ensureCollection().then(() => ensureIndexes(indexes)), begun *)
(* by makeStorage and not awaited.  Each await of a database call is a     *)
(* step; a step that the database rejects ends the bootstrap as failed,    *)
(* with ensureIndexes not run or not finished.                             *)
(***************************************************************************)

\* ixSpecificationIdentity: JSON.stringify(i.key), which tells two
\* specifications apart by their ordered key pattern alone, not by name.
ixSpecificationIdentity(i) == i.key

\* _.differenceBy(array, values, identity) with ixSpecificationIdentity for identity
differenceBy(array, values) ==
    {i \in array :
        \A v \in values : ixSpecificationIdentity(i) # ixSpecificationIdentity(v)}

\* removedIndexes as it would be without the filter on the _id index.
removedIndexesUnfiltered(existingIndexes, indexes) ==
    differenceBy(existingIndexes, indexes)

\* removedIndexes as it would be were no index ever found to remove.
removedIndexesNone(existingIndexes, indexes) == {}

\* newIndexes as it would be were specifications compared whole, name and
\* all, not by their key pattern.
newIndexesByName(indexes, existingIndexes) ==
    {i \in indexes : i \notin existingIndexes}

newIndexes(indexes, existingIndexes) ==
    differenceBy(indexes, existingIndexes)

removedIndexes(existingIndexes, indexes) ==
    {index \in differenceBy(existingIndexes, indexes) :
        ixSpecificationIdentity(index) # IdKey}

\* The bootstrap of store b has begun and has not ended.
Running(b) == boots[b].pc \notin {"idle", "done", "failed"}

\* The catalogue is as a store made with these indexes wants it.
AsDesired(indexes) ==
    /\ CollectionName \in collectionNames
    /\ {ixSpecificationIdentity(i) : i \in dbIndexes}
           = {ixSpecificationIdentity(i) : i \in indexes} \cup {IdKey}

\* makeStorage(documentName, collectionName, documentSchema, indexes):
\* the facade is returned with the bootstrap begun.  Stores are made in order.
MakeStorage(b, indexes) ==
    /\ boots[b].pc = "idle"
    /\ \A c \in Stores : c < b => boots[c].pc # "idle"
    /\ boots' = [c \in Stores |->
           IF c = b
               THEN [NoBoot EXCEPT !.pc = "collections",
                                   !.indexes = indexes,
                                   !.alone = \A o \in Stores : ~Running(o),
                                   !.converged = AsDesired(indexes)]
               ELSE [boots[c] EXCEPT !.alone = FALSE]]
    /\ UNCHANGED <<collection, nextId, handles, now, last, applied, connVars,
                   collectionNames, dbIndexes>>

\* ensureCollection: (await db()).collections(), and the test of includes.
ListCollections(b) ==
    /\ boots[b].pc = "collections"
    /\ Connected
    /\ boots' = [boots EXCEPT ![b].pc =
           IF CollectionName \in collectionNames THEN "listIndexes"
           ELSE "createCollection"]
    /\ UNCHANGED <<collection, nextId, handles, now, last, applied, connVars,
                   collectionNames, dbIndexes>>

\* createCollection(collectionName), first half: the driver lists the
\* collections of that name and returns the one there is, if any.
CreateCollectionCheck(b) ==
    /\ boots[b].pc = "createCollection"
    /\ Connected
    /\ boots' = [boots EXCEPT
           ![b].pc = IF CollectionName \in collectionNames THEN "listIndexes"
                     ELSE "create",
           ![b].issued = @ \cup {"createCollection"}]
    /\ UNCHANGED <<collection, nextId, handles, now, last, applied, connVars,
                   collectionNames, dbIndexes>>

\* createCollection(collectionName), second half: the create command, which
\* the database rejects if a collection of that name has come to exist.
CreateCollectionCommand(b) ==
    /\ boots[b].pc = "create"
    /\ IF CollectionName \in collectionNames
           THEN /\ boots' = [boots EXCEPT ![b].pc = "failed"]
                /\ UNCHANGED <<collectionNames, dbIndexes>>
           ELSE /\ boots' = [boots EXCEPT ![b].pc = "listIndexes"]
                /\ collectionNames' = DbCreated(collectionNames)
                /\ dbIndexes' = DbCreatedIndexes(collectionNames, dbIndexes)
    /\ UNCHANGED <<collection, nextId, handles, now, last, applied, connVars>>

\* What ensureIndexes does after the step at pc has been taken.
AfterIndexes(new, removed) ==
    IF new # {} THEN "createIndexes"
    ELSE IF removed # {} THEN "dropIndex"
    ELSE "done"

\* ensureIndexes: listIndexes().toArray() and the two differences.
ListIndexes(b) ==
    /\ boots[b].pc = "listIndexes"
    /\ Connected
    /\ LET existingIndexes == dbIndexes
           new == newIndexes(boots[b].indexes, existingIndexes)
           removed == removedIndexes(existingIndexes, boots[b].indexes)
       IN  boots' = [boots EXCEPT ![b].newIndexes = new,
                                  ![b].removedIndexes = removed,
                                  ![b].pc = AfterIndexes(new, removed)]
    /\ UNCHANGED <<collection, nextId, handles, now, last, applied, connVars,
                   collectionNames, dbIndexes>>

\* createIndexes(newIndexes): one command; an index that is there already
\* under the same key and name is left as it is.
CreateIndexes(b) ==
    /\ boots[b].pc = "createIndexes"
    /\ Connected
    /\ dbIndexes' = dbIndexes \cup
           {LiveIndex(ixSpecificationIdentity(i)) : i \in boots[b].newIndexes}
    /\ boots' = [boots EXCEPT ![b].pc = AfterIndexes({}, boots[b].removedIndexes),
                              ![b].issued = @ \cup {"createIndexes"}]
    /\ UNCHANGED <<collection, nextId, handles, now, last, applied, connVars,
                   collectionNames>>

\* One turn of the loop over removedIndexes: dropIndex(index.name), which
\* the database rejects for an index that is not there and for the _id index.
DropIndex(b, index) ==
    /\ boots[b].pc = "dropIndex"
    /\ Connected
    /\ index \in boots[b].removedIndexes
    /\ IF index \notin dbIndexes \/ index = PrimaryIndex
           THEN /\ boots' = [boots EXCEPT ![b].pc = "failed",
                                          ![b].issued = @ \cup {"dropIndex"}]
                /\ UNCHANGED dbIndexes
           ELSE /\ dbIndexes' = dbIndexes \ {index}
                /\ boots' = [boots EXCEPT
                       ![b].removedIndexes = @ \ {index},
                       ![b].pc = AfterIndexes({}, boots[b].removedIndexes \ {index}),
                       ![b].issued = @ \cup {"dropIndex"}]
    /\ UNCHANGED <<collection, nextId, handles, now, last, applied, connVars,
                   collectionNames>>

\* The steps of the bootstrap of store b.
Bootstrap(b) ==
    \/ ListCollections(b)
    \/ CreateCollectionCheck(b)
    \/ CreateCollectionCommand(b)
    \/ ListIndexes(b)
    \/ CreateIndexes(b)
    \/ \E index \in boots[b].removedIndexes : DropIndex(b, index)

(***************************************************************************)
(* findMany(filter, sort, limit, page): the filter is translated entry by  *)
(* entry into a query, the matching documents are sorted, and one page of  *)
(* them is returned.                                                       *)
(***************************************************************************)

\* Object.entries order of the keys a filter of the model may have.
FilterKeyOrder ==
    <<"documentId", "someField", "channel", "status", "unshippedCount",
      "purchaseDate", "purchasedAfter", "updatedAfter", "shouldShipBy">>

\* dateToFilter as it would be were the comparisons not strict.
dateToFilterInclusive(k, v) ==
    CASE k = "purchasedAfter" -> <<<<"purchaseDate", [k |-> "$gte", v |-> Str(v.v)]>>>>
      [] k = "updatedAfter" -> <<<<"lastChanged", [k |-> "$gte", v |-> Str(v.v)]>>>>
      [] k = "shouldShipBy" -> <<<<"latestShipDate", [k |-> "$lte", v |-> Str(v.v)]>>>>
      [] OTHER -> <<>>

\* dateToFilter(k, v): the [field, condition] pair of a date operator, with
\* v.toISOString() to compare with; undefined (no pair) for any other key.
dateToFilter(k, v) ==
    CASE k = "purchasedAfter" -> <<<<"purchaseDate", [k |-> "$gt", v |-> Str(v.v)]>>>>
      [] k = "updatedAfter" -> <<<<"lastChanged", [k |-> "$gt", v |-> Str(v.v)]>>>>
      [] k = "shouldShipBy" -> <<<<"latestShipDate", [k |-> "$lt", v |-> Str(v.v)]>>>>
      [] OTHER -> <<>>

\* The test of the filter's entries as it would be were only undefined dropped.
keepsEntryDefined(v) == v # Undefined

\* .filter(([k, v]) => !!v)
keepsEntry(v) == ~IsFalsy(v)

\* .map(([k, v]) => ...): the pair of one entry, no pair for undefined.
entryToPair(k, v) ==
    IF v.k = "date" THEN dateToFilter(k, v)
    ELSE IF v.k = "array" THEN <<<<k, [k |-> "$in", v |-> v.v]>>>>
    ELSE <<<<k, v>>>>

\* _.fromPairs(pairs): later pairs overwrite earlier ones of the same key;
\* it reads pair[0] of every element, a TypeError if one is undefined.
RECURSIVE fromPairs(_)
fromPairs(pairs) ==
    IF pairs = <<>> THEN [err |-> "", filter |-> EmptyDoc]
    ELSE LET pair == pairs[Len(pairs)]
             rest == fromPairs(SubSeq(pairs, 1, Len(pairs) - 1))
         IN  IF rest.err # "" \/ pair = <<>>
                 THEN [err |-> "TypeError", filter |-> EmptyDoc]
                 ELSE [err |-> "",
                       filter |-> Assign(rest.filter, pair[1][1] :> pair[1][2])]

\* mongoFilter: the query findMany sends, or the error building it throws.
mongoFilter(filter) ==
    LET entries == SelectSeq(Keys(filter, FilterKeyOrder),
                             LAMBDA k : keepsEntry(filter[k]))
    IN  fromPairs([i \in 1..Len(entries) |->
                      entryToPair(entries[i], filter[entries[i]])])

\* The place of a document in a sort on one field: a missing field sorts as
\* null, before every value; the values of one field are of one type.
SortRank(doc, key) ==
    IF key \in DOMAIN doc THEN TextRank(doc[key].v) ELSE 0

\* cursor.sort(sort): no reordering for {}; else ascending (1) or descending
\* (-1) on the one field, documents that tie kept in their natural order.
RECURSIVE DbSort(_, _)
DbSort(docs, sort) ==
    IF sort = <<>> \/ docs = <<>> THEN docs
    ELSE LET key == sort[1][1]
             dir == sort[1][2]
             rank(i) == dir * SortRank(docs[i], key)
             first == CHOOSE i \in 1..Len(docs) :
                          \A j \in 1..Len(docs) :
                              rank(i) < rank(j) \/ (rank(i) = rank(j) /\ i <= j)
             others == [j \in 1..(Len(docs) - 1) |->
                           IF j < first THEN docs[j] ELSE docs[j + 1]]
         IN  <<docs[first]>> \o DbSort(others, sort)

\* cursor.skip(n).limit(m)
DbSkipLimit(docs, n, m) ==
    SubSeq(docs, n + 1, IF n + m < Len(docs) THEN n + m ELSE Len(docs))

\* The skip of a page as it would be were pages counted from 0.
skipFromZero(limit, page) == limit * page

\* limit * (page - 1)
skip(limit, page) == limit * (page - 1)

\* The outcome of a findMany call, with the arguments it was called with.
ManyResult(args, err, ret) ==
    [op |-> "findMany", by |-> 0, err |-> err, ret |-> ret, args |-> args]

findMany(coll, filter, sort, limit, page) ==
    LET args == [filter |-> filter, sort |-> sort, limit |-> limit, page |-> page]
        query == mongoFilter(filter)
        found == SelectSeq(coll, LAMBDA doc : Matches(doc, query.filter))
        paged == DbSkipLimit(DbSort(found, sort), skip(limit, page), limit)
    IN  IF query.err # "" THEN ManyResult(args, query.err, <<>>)
        ELSE ManyResult(args, "",
                        [i \in 1..Len(paged) |-> mapDocumentFromDb(Project(paged[i]))])

\* The test harness puts the first n documents of the pagination test into
\* the empty collection with insertMany, past the store.
InsertMany(n) ==
    /\ Connected
    /\ collection = <<>>
    /\ nextId = 1
    /\ collection' = [i \in 1..n |-> Assign(PageDocument(i), "_id" :> i)]
    /\ nextId' = n + 1
    /\ collectionNames' = DbCreated(collectionNames)
    /\ dbIndexes' = DbCreatedIndexes(collectionNames, dbIndexes)
    /\ last' = Result("insertMany", 0, "", <<>>)
    /\ UNCHANGED <<handles, now, applied, connVars, boots>>

FindMany(filter, sort, limit, page) ==
    /\ collectionResolves
    /\ last' = findMany(collection, filter, sort, limit, page)
    /\ UNCHANGED <<collection, nextId, handles, now, applied, connVars, bootVars>>

(***************************************************************************)
(* db-connector: connectDb and db().  A connectDb call runs to its await   *)
(* of client.connect() in one step and goes on when the client answers; a  *)
(* db() call that finds no connection polls for one on a 100 ms timer.     *)
(***************************************************************************)

\* connectDb that never finds a connection in its way.
existingConnectionIgnored == FALSE

\* connectDb: if (GLOBAL_CONNECTION).
existingConnection == GLOBAL_CONNECTION # NoConnection

\* The timer callback of db() resolving whatever it finds.
timerSeesAnything == TRUE

\* The timer callback of db(): if (GLOBAL_CONNECTION).
timerSeesConnection == GLOBAL_CONNECTION # NoConnection

\* connectDb called: it throws when a connection exists, else makes client c
\* and awaits its connect().
ConnectDb(c) ==
    /\ clients[c] = "none"
    /\ clients' = [clients EXCEPT ![c] =
                       IF existingConnection THEN "rejected" ELSE "connecting"]
    /\ UNCHANGED <<collection, nextId, handles, now, last, applied,
                   GLOBAL_CONNECTION, dbCalls, bootVars>>

\* client.connect() resolved: the rest of connectDb assigns the client.
\* The db() it then awaits resolves at once and only registers a listener.
ClientConnected(c) ==
    /\ clients[c] = "connecting"
    /\ GLOBAL_CONNECTION' = c
    /\ clients' = [clients EXCEPT ![c] = "connected"]
    /\ UNCHANGED <<collection, nextId, handles, now, last, applied,
                   dbCalls, bootVars>>

\* client.connect() rejected by a connectDb that had assigned its client
\* before it awaited the connect.
ClientConnectFailsAssigned(c) ==
    /\ clients[c] = "connecting"
    /\ clients' = [clients EXCEPT ![c] = "failed"]
    /\ GLOBAL_CONNECTION' = c
    /\ UNCHANGED <<collection, nextId, handles, now, last, applied,
                   dbCalls, bootVars>>

\* client.connect() rejected: connectDb rejects before its assignment.
ClientConnectFails(c) ==
    /\ clients[c] = "connecting"
    /\ clients' = [clients EXCEPT ![c] = "failed"]
    /\ UNCHANGED <<collection, nextId, handles, now, last, applied,
                   GLOBAL_CONNECTION, dbCalls, bootVars>>

\* db() called: resolved at once with the connection, or a timer started.
Db(d) ==
    /\ dbCalls[d].pc = "idle"
    /\ dbCalls' = [dbCalls EXCEPT ![d] =
                       IF GLOBAL_CONNECTION # NoConnection
                       THEN [pc |-> "resolved", value |-> GLOBAL_CONNECTION,
                             waited |-> FALSE]
                       ELSE [pc |-> "polling", value |-> NoConnection,
                             waited |-> TRUE]]
    /\ UNCHANGED <<collection, nextId, handles, now, last, applied,
                   GLOBAL_CONNECTION, clients, bootVars>>

\* The timer of a polling db() fires: it resolves the call and clears itself
\* when it sees a connection, and does nothing otherwise.
TimerFires(d) ==
    /\ dbCalls[d].pc = "polling"
    /\ IF timerSeesConnection
       THEN dbCalls' = [dbCalls EXCEPT ![d] =
                            [pc |-> "resolved", value |-> GLOBAL_CONNECTION,
                             waited |-> TRUE]]
       ELSE UNCHANGED dbCalls
    /\ UNCHANGED <<collection, nextId, handles, now, last, applied,
                   GLOBAL_CONNECTION, clients, bootVars>>

(***************************************************************************)
(* The update protocol: inserts, fetches for update, the caller's          *)
(* mutations, commits, and the harness emptying the collection.            *)
(***************************************************************************)
Next ==
    \/ \E document \in Documents : InsertOne(RcOf(nextId), document)
    \/ \E h \in Handles, filter \in FetchFilters : FindOneAndUpdate(h, RcOf(h), filter)
    \/ \E h \in Handles, filter \in FetchFilters, predicate \in Predicates :
           FindOneSubdocumentAndUpdate(h, RcOf(h), filter, predicate)
    \/ \E h \in Handles, mutation \in Mutations : MutateDocumentReference(h, mutation)
    \/ \E h \in Handles, mutation \in SubMutations : MutateSubdocumentReference(h, mutation)
    \/ \E h \in Handles : CommitReference(h)
    \/ \E h \in Handles, update \in Updates : CommitUpdate(h, update)
    \/ \E h \in Handles : CommitApply(h)
    \/ \E filter \in DeleteFilters : DeleteMany(filter)

Spec == Init /\ [][Next]_vars

(***************************************************************************)
(* The reads, next to the writes of one caller at a time.                  *)
(***************************************************************************)
NextRead ==
    \/ \E document \in ReadDocuments : InsertOne(RcOf(nextId), document)
    \/ \E filter \in Filters : FindOne(filter)
    \/ \E filter \in Filters, sub \in SubFilters : FindManySubdocuments(filter, sub)
    \/ \E filter \in Filters, sub \in SubFilters : FindOneSubdocument(filter, sub)
    \/ \E filter \in Filters : FindOneAndUpdate(1, RcOf(1), filter)
    \/ \E filter \in Filters, predicate \in Predicates :
           FindOneSubdocumentAndUpdate(1, RcOf(1), filter, predicate)
    \/ \E mutation \in SubMutations : MutateSubdocumentReference(1, mutation)
    \/ CommitReference(1)
    \/ CommitApply(1)
    \/ \E filter \in DeleteFilters : DeleteMany(filter)

SpecRead == Init /\ [][NextRead]_vars

(***************************************************************************)
(* Inserts and the updates of one caller, among them an update whose       *)
(* documentId is not an ObjectId.                                          *)
(***************************************************************************)
AnyUpdates == Updates \cup {[documentId |-> Str("not an id")]}

NextUpdate ==
    \/ \E document \in Documents : InsertOne(RcOf(nextId), document)
    \/ \E filter \in Filters : FindOneAndUpdate(1, RcOf(1), filter)
    \/ \E mutation \in Mutations : MutateDocumentReference(1, mutation)
    \/ CommitReference(1)
    \/ \E update \in AnyUpdates : CommitUpdate(1, update)
    \/ CommitApply(1)

SpecUpdate == Init /\ [][NextUpdate]_vars

(***************************************************************************)
(* Stores made and bootstrapping while documents are inserted, read and    *)
(* updated.  The database answers every call; a bootstrap that has begun   *)
(* goes on until it ends.                                                  *)
(***************************************************************************)
BootDocuments == {[documentId |-> Oid(DocA), someField |-> Str("yomama")]}

BootFilters == {[documentId |-> Oid(DocA)]}

NextBoot ==
    \/ \E b \in Stores, indexes \in DesiredSets : MakeStorage(b, indexes)
    \/ \E b \in Stores : Bootstrap(b)
    \/ \E document \in BootDocuments : InsertOne(RcOf(nextId), document)
    \/ \E filter \in BootFilters : FindOne(filter)
    \/ \E filter \in BootFilters : FindOneAndUpdate(1, RcOf(1), filter)
    \/ \E update \in Mutations : CommitUpdate(1, update)
    \/ CommitApply(1)

SpecBoot ==
    Init /\ [][NextBoot]_vars /\ \A b \in Stores : WF_vars(Bootstrap(b))

(***************************************************************************)
(* findMany and findOne on orders inserted through the store and on the    *)
(* documents of the pagination test: every page of everything, and the     *)
(* first page of every filter.                                             *)
(***************************************************************************)
NextMany ==
    \/ \E document \in OrderDocuments : InsertOne(RcOf(nextId), document)
    \/ \E n \in 1..MaxMany : InsertMany(n)
    \/ \E sort \in Sorts, limit \in Limits, page \in Pages :
           FindMany(EmptyDoc, sort, limit, page)
    \/ \E filter \in ManyFilters, sort \in Sorts : FindMany(filter, sort, DefaultLimit, 1)
    \/ \E filter \in ManyFilters : FindOne(filter)

SpecMany == Init /\ [][NextMany]_vars

\* disconnectDb called: it returns at once when there is no connection, else
\* closes the client; GLOBAL_CONNECTION is not assigned.
DisconnectDb ==
    /\ IF GLOBAL_CONNECTION = NoConnection
       THEN UNCHANGED clients
       ELSE clients' = [clients EXCEPT ![GLOBAL_CONNECTION] = "closed"]
    /\ last' = Result("disconnectDb", GLOBAL_CONNECTION, "", <<>>)
    /\ UNCHANGED <<collection, nextId, handles, now, applied,
                   GLOBAL_CONNECTION, dbCalls, bootVars>>

(***************************************************************************)
(* The process from its start: nothing connected yet.  connectDb and db()  *)
(* are called in any order while a store inserts and reads; a timer that   *)
(* was set keeps firing.                                                   *)
(***************************************************************************)
InitConnect ==
    /\ collection = <<>>
    /\ nextId = 1
    /\ handles = [h \in Handles |-> FreeHandle]
    /\ now = 0
    /\ last = Result("none", 0, "", <<>>)
    /\ applied = [id \in 1..MaxDocs |-> <<>>]
    /\ GLOBAL_CONNECTION = NoConnection
    /\ clients = [c \in Clients |-> "none"]
    /\ dbCalls = [d \in DbCalls |-> NoDbCall]
    /\ collectionNames = {}
    /\ dbIndexes = {}
    /\ boots = [b \in Stores |-> NoBoot]

NextConnect ==
    \/ \E c \in Clients : ConnectDb(c)
    \/ \E c \in Clients : ClientConnected(c)
    \/ \E c \in Clients : ClientConnectFails(c)
    \/ \E d \in DbCalls : Db(d)
    \/ \E d \in DbCalls : TimerFires(d)
    \/ \E document \in BootDocuments : InsertOne(RcOf(nextId), document)
    \/ \E filter \in BootFilters : FindOne(filter)

SpecConnect ==
    InitConnect /\ [][NextConnect]_vars /\ \A d \in DbCalls : WF_vars(TimerFires(d))

(***************************************************************************)
(* The process connecting and disconnecting: connectDb, db() and           *)
(* disconnectDb are called in any order, as the test harness calls         *)
(* connectDb before the tests and disconnectDb after them.                 *)
(***************************************************************************)
NextLifecycle ==
    \/ \E c \in Clients : ConnectDb(c)
    \/ \E c \in Clients : ClientConnected(c)
    \/ \E c \in Clients : ClientConnectFails(c)
    \/ \E d \in DbCalls : Db(d)
    \/ \E d \in DbCalls : TimerFires(d)
    \/ DisconnectDb

SpecLifecycle ==
    InitConnect /\ [][NextLifecycle]_vars /\ \A d \in DbCalls : WF_vars(TimerFires(d))

(***************************************************************************)
(* createChangelog called on its own, as the test 'creating a changelog'   *)
(* calls it: on plain objects of strings, and on the documents commit      *)
(* hands it, in which serialize has made ObjectIds of the identifiers.     *)
(***************************************************************************)

\* The originals: none, the plain objects of the test, and serialized
\* documents of the store.
ChangelogOriginals ==
    {EmptyDoc,
     [someField |-> Str("hey")],
     [someField |-> Str("hey"), subResource |-> <<>>],
     [someField |-> Str("hey"), subResource |-> <<[hello |-> Str("no")]>>],
     [someField |-> Str("hey"),
      subResource |-> <<[hello |-> Str("no")], [hello |-> Str("yeah")],
                        [hello |-> Str("hi")]>>],
     [documentId |-> Oid(DocA), someField |-> Str("yomama")],
     [documentId |-> Oid(DocA), someField |-> Str("yomama"), subResource |-> TwoSubs]}

\* The updates: none, those of the test (a field changed, a field repeated,
\* an array that grew or shrank and whose first element changed), and
\* updates holding ObjectIds.
ChangelogUpdates ==
    {EmptyDoc,
     [someField |-> Str("hello")],
     [someField |-> Str("hey")],
     [someField |-> Str("hello"),
      subResource |-> <<[hello |-> Str("maybe"), subResourceId |-> Str("howAreYou")],
                        [hello |-> Str("yeah")]>>],
     [subResource |-> <<>>],
     [subResource |-> <<[subResourceId |-> Str("howAreYou")]>>],
     [documentId |-> Oid(DocA)],
     [subResource |-> TwoSubs]}

\* The target of Object.assign as it would be without the copy.
assignTargetOriginal == "originalOrder"

\* The object Object.assign writes into: the copy _.cloneDeep made.
assignTarget == "cloneDeep"

\* The two arguments as the call leaves them: Object.assign writes the
\* entries of updates into its target and into nothing else; diff and
\* JSON.stringify only read.
argumentsAfter(originalOrder, updates) ==
    [originalOrder |-> IF assignTarget = "originalOrder"
                           THEN Assign(originalOrder, updates)
                           ELSE originalOrder,
     updates |-> updates]

ChangelogResult(args, left, ret) ==
    [op |-> "createChangelog", by |-> 0, err |-> "", ret |-> ret,
     args |-> args, left |-> left]

CreateChangelog(rc, originalOrder, updates) ==
    /\ last' = ChangelogResult([originalOrder |-> originalOrder, updates |-> updates],
                               argumentsAfter(originalOrder, updates),
                               <<createChangelog(rc, originalOrder, updates, now)>>)
    /\ UNCHANGED <<collection, nextId, handles, now, applied, connVars, bootVars>>

NextChangelog ==
    \/ \E rc \in RequestContexts, originalOrder \in ChangelogOriginals,
          updates \in ChangelogUpdates : CreateChangelog(rc, originalOrder, updates)
    \/ Tick

SpecChangelog == Init /\ [][NextChangelog]_vars

(***************************************************************************)
(* Every operation that returns documents, on documents put in through the *)
(* store: insertOne, findOne, findMany, and the commits of one caller.     *)
(***************************************************************************)
ReturnFilters == Filters \cup {EmptyDoc}

NextReturn ==
    \/ \E document \in ValidDocuments : InsertOne(RcOf(nextId), document)
    \/ \E filter \in Filters : FindOne(filter)
    \/ \E filter \in ReturnFilters, sort \in Sorts, limit \in Limits :
           FindMany(filter, sort, limit, 1)
    \/ \E filter \in Filters : FindOneAndUpdate(1, RcOf(1), filter)
    \/ CommitReference(1)
    \/ \E update \in Updates : CommitUpdate(1, update)
    \/ CommitApply(1)

SpecReturn == Init /\ [][NextReturn]_vars

(***************************************************************************)
(* Inserts and the commits of several callers while the wall clock goes    *)
(* on: a commit reads the clock when it builds its entry, and its database *)
(* call comes after an await.                                              *)
(***************************************************************************)
NextClock ==
    \/ \E document \in ValidDocuments : InsertOne(RcOf(nextId), document)
    \/ \E h \in Handles, filter \in FetchFilters : FindOneAndUpdate(h, RcOf(h), filter)
    \/ \E h \in Handles, update \in Updates : CommitUpdate(h, update)
    \/ \E h \in Handles : CommitApply(h)
    \/ Tick

SpecClock == Init /\ [][NextClock]_vars

(***************************************************************************)
(* Several callers of findOneSubdocumentAndUpdate on one parent, each with *)
(* a predicate for one of its two subdocuments, each committing its        *)
(* document reference.                                                     *)
(***************************************************************************)
SubdocumentPredicates == {Oid(SubA), Oid(SubB)}

ParentDocuments ==
    {[documentId |-> Oid(DocA), someField |-> Str("yomama"), subResource |-> TwoSubs]}

ParentFilters == {[documentId |-> Oid(DocA)]}

NextSub ==
    \/ \E document \in ParentDocuments : InsertOne(RcOf(nextId), document)
    \/ \E h \in Handles, filter \in ParentFilters, predicate \in SubdocumentPredicates :
           FindOneSubdocumentAndUpdate(h, RcOf(h), filter, predicate)
    \/ \E h \in Handles, mutation \in SubMutations : MutateSubdocumentReference(h, mutation)
    \/ \E h \in Handles : CommitReference(h)
    \/ \E h \in Handles : CommitApply(h)

SpecSub == Init /\ [][NextSub]_vars

(***************************************************************************)
(* Commits that change nothing of what was fetched, of the document        *)
(* reference and of objects of the caller's own, next to commits that do   *)
(* change a field.                                                         *)
(***************************************************************************)
NoopUpdates ==
    {EmptyDoc, [someField |-> Str("yomama")], [changelogs |-> ForgedChangelogs]}

NextNoop ==
    \/ \E document \in ValidDocuments : InsertOne(RcOf(nextId), document)
    \/ \E h \in Handles, filter \in FetchFilters : FindOneAndUpdate(h, RcOf(h), filter)
    \/ \E h \in Handles : CommitReference(h)
    \/ \E h \in Handles, update \in NoopUpdates \cup Updates : CommitUpdate(h, update)
    \/ \E h \in Handles : CommitApply(h)

SpecNoop == Init /\ [][NextNoop]_vars

(***************************************************************************)
(* The store made with keepChangelog: makeStorage takes a fifth argument   *)
(* and keeps the changelog only when it is true.  This store hands its     *)
(* documents to the database through serializeDocumentToDb and returns     *)
(* what the database answers.                                              *)
(***************************************************************************)

\* A store made to keep the changelog.
keepChangelogTrue == TRUE

\* makeStorage(documentName, collectionName, documentSchema, indexes, false)
keepChangelog == FALSE

\* serializeDocumentToDb: convertObjectWithPattern turns the sub-objects
\* that have the keys of MoneySchema into their JSON; no value of the test
\* schema is such an object, so every document of the model maps to itself.
serializeDocumentToDb(doc) == doc

\* The document this insertOne hands to the database: the changelog of one
\* entry is assigned over the input only when the changelog is kept.
insertedDocumentOptional(rc, document, clock) ==
    Assign(serializeDocumentToDb(document),
           IF keepChangelog
               THEN [changelogs |-> <<createChangelog(rc, EmptyDoc, EmptyDoc, clock)>>]
               ELSE EmptyDoc)

\* changelogUpdateQuery: null, which spreads to no operator, or the $push.
changelogUpdateQuery(rc, originalDocument, serializedChanges, clock) ==
    IF ~keepChangelog
        THEN EmptyDoc
        ELSE [changelogs |-> createChangelog(rc, serializeDocumentToDb(originalDocument),
                                             serializedChanges, clock)]

\* updateQuery: {$set: serializedChanges, ...changelogUpdateQuery}
updateQueryOptional(rc, originalDocument, documentUpdate, clock) ==
    LET serializedChanges == serializeDocumentToDb(documentUpdate)
    IN  [set |-> serializedChanges,
         push |-> changelogUpdateQuery(rc, originalDocument, serializedChanges, clock)]

\* insertOne(rc, document) of this store
InsertOneOptional(rc, document) ==
    /\ nextId <= MaxDocs
    /\ collectionResolves
    /\ IF ~validate(document)
           THEN /\ last' = Result("insertOne", 0, "ValidationError", <<>>)
                /\ UNCHANGED <<collection, nextId, collectionNames, dbIndexes>>
           ELSE LET stored == insertedDocumentOptional(rc, document, now)
                    coll == DbInsertOne(collection, stored, nextId)
                    op0 == coll[Len(coll)]
                IN  /\ collection' = coll
                    /\ nextId' = nextId + 1
                    /\ collectionNames' = DbCreated(collectionNames)
                    /\ dbIndexes' = DbCreatedIndexes(collectionNames, dbIndexes)
                    /\ last' = Result("insertOne", 0, "", <<Omit(op0, {"_id"})>>)
    /\ UNCHANGED <<handles, now, applied, connVars, boots>>

\* commit(documentUpdate) of this store up to its database call.
CommitOptional(h, documentUpdate, isReference) ==
    /\ handles[h].state = "open"
    /\ Invocations < MaxCommits
    /\ LET originalDocument == StripChangelogs(handles[h].originalDocument)
           update == StripChangelogs(documentUpdate)
       IN  handles' = [handles EXCEPT
               ![h].state = "committing",
               ![h].originalDocument = originalDocument,
               ![h].reference = IF isReference THEN update ELSE @,
               ![h].query = updateQueryOptional(handles[h].rc, originalDocument,
                                                update, now)]
    /\ UNCHANGED <<collection, nextId, now, last, applied, connVars, bootVars>>

\* The database call of this store's commit and its outcome; the history
\* records the $push of the call, which has no field when none was sent.
CommitApplyOptional(h) ==
    /\ handles[h].state = "committing"
    /\ collectionResolves
    /\ LET result == commitResult(h)
       IN  IF result.err # ""
               THEN /\ last' = Result("commit", h, result.err, <<>>)
                    /\ UNCHANGED <<collection, applied>>
           ELSE IF result.value = <<>>
               THEN /\ last' = Result("commit", h, "UpdateError", <<>>)
                    /\ UNCHANGED <<collection, applied>>
           ELSE /\ collection' = result.coll
                /\ last' = Result("commit", h, "", <<result.value[1]>>)
                /\ applied' = [applied EXCEPT ![result.id] =
                       Append(@, [by |-> h, entry |-> handles[h].query.push])]
    /\ handles' = [handles EXCEPT ![h].state = "open",
                                  ![h].commits = @ + 1,
                                  ![h].query = NoQuery]
    /\ UNCHANGED <<nextId, now, connVars, bootVars>>

\* The documents callers insert: the test document with and without a
\* changelogs value of the caller's own.
OptionalDocuments ==
    ValidDocuments \cup {[documentId |-> Oid(DocB), someField |-> Str("yomama")]}

NextOptional ==
    \/ \E document \in OptionalDocuments : InsertOneOptional(RcOf(nextId), document)
    \/ \E filter \in Filters : FindOne(filter)
    \/ \E h \in Handles, filter \in FetchFilters : FindOneAndUpdate(h, RcOf(h), filter)
    \/ \E h \in Handles, mutation \in Mutations : MutateDocumentReference(h, mutation)
    \/ \E h \in Handles : CommitOptional(h, handles[h].reference, TRUE)
    \/ \E h \in Handles, update \in NoopUpdates \cup Updates :
           CommitOptional(h, update, FALSE)
    \/ \E h \in Handles : CommitApplyOptional(h)

SpecOptional == Init /\ [][NextOptional]_vars

(***************************************************************************)
(* Properties of the changelog.                                            *)
(***************************************************************************)

\* The stored entries at changelogs of the document with this _id, if present.
ChangelogsOf(coll, id) ==
    LET hits == {i \in 1..Len(coll) : coll[i]["_id"] = id}
    IN  IF hits = {} THEN <<>> ELSE coll[CHOOSE i \in hits : TRUE]["changelogs"]

Present(coll, id) == \E i \in 1..Len(coll) : coll[i]["_id"] = id

\* C1: in every reachable state, every stored document created by insertOne
\* has exactly 1 + N changelog entries, N being the number of commit calls
\* that completed successfully against it; failed commits and fetches add none.
ChangelogCount ==
    \A i \in 1..Len(collection) :
        Len(collection[i]["changelogs"]) = 1 + Len(applied[collection[i]["_id"]])

\* A document that took one successful commit, right after another commit
\* failed against it.
ChangelogCountWitness ==
    /\ last.op = "commit"
    /\ last.err = "UpdateError"
    /\ \E i \in 1..Len(collection) :
           /\ Len(applied[collection[i]["_id"]]) = 1
           /\ Len(collection[i]["changelogs"]) = 2
           /\ handles[last.by].fetchedId = collection[i]["_id"]

IsPrefix(s, t) == Len(s) <= Len(t) /\ \A k \in 1..Len(s) : s[k] = t[k]

\* C2: the changelog of a document is append-only: over every step, the
\* changelog a stored document had before is a prefix of the one it has
\* after, also when the update passed to commit carries a changelogs field.
ChangelogAppendOnly ==
    [][\A id \in 1..MaxDocs :
          (Present(collection, id) /\ Present(collection', id))
              => IsPrefix(ChangelogsOf(collection, id), ChangelogsOf(collection', id))]_vars

\* A commit whose update carried a changelogs field of its own has been
\* stored: the document holds the update's someField next to the insert's
\* entry and the commit's.
ChangelogAppendOnlyWitness ==
    /\ last.op = "commit"
    /\ last.err = ""
    /\ \E i \in 1..Len(collection) :
           /\ collection[i]["someField"] = Str("yo")
           /\ Len(collection[i]["changelogs"]) = 2
           /\ collection[i]["changelogs"][1].changes = <<>>
           /\ collection[i]["changelogs"] # ForgedChangelogs

\* Writes p and q of the commits applied to the document with this _id are
\* those of two callers that both fetched this document before write p.
ConcurrentCommits(id, p, q) ==
    LET a == applied[id]
    IN  /\ p < q
        /\ a[p].by # a[q].by
        /\ handles[a[p].by].fetchedId = id
        /\ handles[a[q].by].fetchedId = id
        /\ handles[a[p].by].fetchedAt < p
        /\ handles[a[q].by].fetchedAt < p

\* C3: when two findOneAndUpdate calls fetch the same document before
\* either commits and both commits succeed, the document's changelog holds
\* the entries of both commits, in the order the two writes were applied.
ConcurrentCommitsKept ==
    \A i \in 1..Len(collection) :
        LET id == collection[i]["_id"]
            changelogs == collection[i]["changelogs"]
        IN  \A p, q \in 1..Len(applied[id]) :
                ConcurrentCommits(id, p, q) =>
                    /\ Len(changelogs) >= 1 + q
                    /\ changelogs[1 + p] = applied[id][p].entry
                    /\ changelogs[1 + q] = applied[id][q].entry

\* Two callers fetched one document and then both committed to it.
ConcurrentCommitsKeptWitness ==
    \E i \in 1..Len(collection) :
        /\ Len(applied[collection[i]["_id"]]) = 2
        /\ ConcurrentCommits(collection[i]["_id"], 1, 2)
        /\ Len(collection[i]["changelogs"]) = 3

\* The stored document with this _id.
DocumentOf(coll, id) == coll[CHOOSE i \in 1..Len(coll) : coll[i]["_id"] = id]

\* The document after is the document before with the whole updateQuery of
\* the commit in flight on handle h: its $set fields and its pushed entry.
WholeUpdate(h, before, after) ==
    /\ handles[h].state = "committing"
    /\ Omit(after, {"changelogs"})
           = Assign(Omit(before, {"changelogs"}), handles[h].query.set)
    /\ after["changelogs"]
           = Append(before["changelogs"], handles[h].query.push["changelogs"])

\* C4: a commit applies its $set and its $push as one atomic step: whenever
\* a step changes a stored document, fields or changelog, the change is the
\* whole update of one commit, so no state holds a commit's field values
\* without its changelog entry or its entry without its field values.
CommitAtomic ==
    [][\A id \in 1..MaxDocs :
          (/\ Present(collection, id)
           /\ Present(collection', id)
           /\ DocumentOf(collection', id) # DocumentOf(collection, id))
              => \E h \in Handles :
                     WholeUpdate(h, DocumentOf(collection, id), DocumentOf(collection', id))]_vars

\* A commit that changed a field has been stored, with its entry of one edit.
CommitAtomicWitness ==
    /\ last.op = "commit"
    /\ last.err = ""
    /\ \E i \in 1..Len(collection) :
           /\ collection[i]["someField"] = Str("yodaddy")
           /\ Len(collection[i]["changelogs"]) = 2
           /\ Len(collection[i]["changelogs"][2].changes) = 1
           /\ last.ret = <<Project(collection[i])>>

\* C5: if no document matches the fetch filter when commit makes its
\* database call, commit fails with the "Couldn't update" error and the
\* collection is unchanged: nothing set, nothing appended, nothing created.
CommitWithoutMatchFails ==
    [][\A h \in Handles :
          (CommitApply(h) /\ FirstMatch(collection, handles[h].filter) = 0)
              => /\ last' = Result("commit", h, "UpdateError", <<>>)
                 /\ collection' = collection
                 /\ applied' = applied]_vars

\* The fetched document was deleted before the commit, which failed on the
\* empty collection.
CommitWithoutMatchFailsWitness ==
    /\ last = Result("commit", last.by, "UpdateError", <<>>)
    /\ last.by \in Handles
    /\ handles[last.by].fetchedId # 0
    /\ collection = <<>>

CallerMutates(h) ==
    /\ handles[h].state = "open"
    /\ handles'[h].state = "open"
    /\ handles[h].commits = 0
    /\ handles'[h].commits = 0
    /\ handles'[h].reference # handles[h].reference

\* C7: between a findOneAndUpdate or findOneSubdocumentAndUpdate call and
\* the invocation of its commit, a mutation of the returned document
\* reference or subdocument reference leaves the stored collection
\* unchanged; a stored document changes only in the database call of a commit.
MutationLeavesStorage ==
    [][/\ \A h \in Handles : CallerMutates(h) => collection' = collection
       /\ \A id \in 1..MaxDocs :
              (/\ Present(collection, id)
               /\ Present(collection', id)
               /\ DocumentOf(collection', id) # DocumentOf(collection, id))
                  => \E h \in Handles : /\ handles[h].state = "committing"
                                         /\ handles'[h].commits = handles[h].commits + 1]_vars

\* A caller has changed someField of its document reference and a caller
\* has changed hello of its subdocument reference, no commit invoked, and
\* the stored documents are still as fetched.
MutationLeavesStorageWitness ==
    /\ \E h \in Handles :
           /\ handles[h].state = "open"
           /\ handles[h].commits = 0
           /\ handles[h].reference["someField"] = Str("yodaddy")
           /\ handles[h].originalDocument["someField"] = Str("yomama")
           /\ Present(collection, handles[h].fetchedId)
           /\ Project(DocumentOf(collection, handles[h].fetchedId))
                  = handles[h].originalDocument
    /\ \E h \in Handles :
           /\ handles[h].state = "open"
           /\ handles[h].commits = 0
           /\ handles[h].subIndex # 0
           /\ handles[h].reference[SubPath][handles[h].subIndex]["hello"]
                  = Str("can you hear me")
           /\ Present(collection, handles[h].fetchedId)
           /\ Project(DocumentOf(collection, handles[h].fetchedId))
                  = handles[h].originalDocument

\* The caller of handle h changed nothing but the value at hello of its
\* subdocument reference, and invoked commit with the document reference.
SubdocumentMutated(h) ==
    LET k == handles[h].subIndex
    IN  /\ k # 0
        /\ handles[h].state = "committing"
        /\ handles[h].reference[SubPath][k]["hello"]
               # handles[h].originalDocument[SubPath][k]["hello"]
        /\ handles[h].reference =
               [handles[h].originalDocument EXCEPT
                   ![SubPath][k]["hello"] = handles[h].reference[SubPath][k]["hello"]]
        /\ handles[h].query.set = serialize(handles[h].reference)

\* C8: the subdocumentReference of findOneSubdocumentAndUpdate is the very
\* element of documentReference[path], so a mutation of one of its keys is
\* in documentReference (MutateSubdocumentReference), and
\* commit(documentReference) stores the mutation and appends one changelog
\* entry whose only edit is an Edited record with path [path, index of the
\* element, mutated key], lhs the fetched value and rhs the new value.
SubdocumentCommit ==
    [][\A h \in Handles :
          LET i == FirstMatch(collection, handles[h].filter)
              k == handles[h].subIndex
              fetched == handles[h].originalDocument[SubPath][k]["hello"]
              mutated == handles[h].reference[SubPath][k]["hello"]
          IN  (SubdocumentMutated(h) /\ CommitApply(h) /\ i # 0)
                  => /\ last'.err = ""
                     /\ collection'[i][SubPath][k]["hello"] = mutated
                     /\ last'.ret[1][SubPath][k]["hello"] = mutated
                     /\ Len(collection'[i]["changelogs"])
                            = Len(collection[i]["changelogs"]) + 1
                     /\ collection'[i]["changelogs"][Len(collection'[i]["changelogs"])].changes
                            = <<DiffEdit(<<SubPath, k - 1, "hello">>,
                                        JsonScalar(fetched), JsonScalar(mutated))>>]_vars

\* The second subdocument was fetched for update, hello of the reference
\* changed, and the commit of the document reference has been stored.
SubdocumentCommitWitness ==
    /\ last.op = "commit"
    /\ last.err = ""
    /\ handles[last.by].subIndex = 2
    /\ last.ret[1][SubPath][2]["hello"] = Str("can you hear me")
    /\ last.ret[1][SubPath][1]["hello"] = Str("it's me")
    /\ last.ret[1]["someField"] = Str("yomama")
    /\ Len(last.ret[1]["changelogs"]) = 2
    /\ last.ret[1]["changelogs"][2].changes
           = <<DiffEdit(<<SubPath, 1, "hello">>,
                       Str("how are you"), Str("can you hear me"))>>

\* The changelog entry of an insert made with request context rc.
InsertEntry(rc) ==
    [ip |-> rc.ip, token |-> rc.token, endpoint |-> rc.endpoint,
     timestamp |-> now, changes |-> <<>>]

\* C9: after a successful insertOne, the stored document's changelog has
\* exactly one entry, of an empty edit sequence, with the token, ip and
\* endpoint of the request context passed to insertOne, whatever changelogs
\* value the input document contained.
InsertChangelog ==
    [][\A rc \in RequestContexts, document \in Documents :
          (nextId' = nextId + 1 /\ InsertOne(rc, document))
              => /\ Len(collection') = Len(collection) + 1
                 /\ collection'[Len(collection')]["changelogs"] = <<InsertEntry(rc)>>
                 /\ last'.ret[1]["changelogs"] = <<InsertEntry(rc)>>]_vars

\* The document whose input carried a changelogs value of the caller has
\* been inserted, and is stored with the one entry of the insert.
InsertChangelogWitness ==
    /\ last.op = "insertOne"
    /\ last.err = ""
    /\ last.ret[1]["documentId"] = Oid(DocB)
    /\ collection # <<>>
    /\ Project(collection[Len(collection)]) = last.ret[1]
    /\ Len(collection[Len(collection)]["changelogs"]) = 1
    /\ collection[Len(collection)]["changelogs"][1].changes = <<>>
    /\ collection[Len(collection)]["changelogs"][1].token \in {RcA.token, RcB.token}

(***************************************************************************)
(* Properties of the reads.                                                *)
(***************************************************************************)

\* Some stored document satisfies the filter.
SomeDocument(filter) == \E i \in 1..Len(collection) : Matches(collection[i], filter)

\* Some element of the array of some stored document that satisfies
\* filterParent satisfies filterSubdocuments.
SomeSubdocument(filterParent, filterSubdocuments) ==
    \E i \in 1..Len(collection) :
        /\ Matches(collection[i], filterParent)
        /\ SubPath \in DOMAIN collection[i]
        /\ \E j \in 1..Len(collection[i][SubPath]) :
               Matches(collection[i][SubPath][j], filterSubdocuments)

\* C10: findOne and findOneSubdocument never return a null or empty value:
\* when nothing matches they fail with the "doesn't exist" error, otherwise
\* they return one value that satisfies the filter; findOneAndUpdate on a
\* filter matching nothing fails the same way, returns no handle and
\* writes nothing.
NeverNull ==
    [][/\ \A filter \in Filters :
              FindOne(filter) =>
                  IF SomeDocument(filter)
                      THEN /\ last'.err = ""
                           /\ Len(last'.ret) = 1
                           /\ Matches(last'.ret[1], filter)
                      ELSE last' = Result("findOne", 0, "NotFoundError", <<>>)
       /\ \A filter \in Filters, sub \in SubFilters :
              FindOneSubdocument(filter, sub) =>
                  IF SomeSubdocument(filter, sub)
                      THEN /\ last'.err = ""
                           /\ Len(last'.ret) = 1
                           /\ Matches(last'.ret[1], sub)
                      ELSE last' = Result("findOneSubdocument", 0, "NotFoundError", <<>>)
       /\ \A h \in Handles, filter \in Filters :
              (FindOneAndUpdate(h, RcOf(h), filter) /\ ~SomeDocument(filter))
                  => /\ last' = Result("findOneAndUpdate", 0, "NotFoundError", <<>>)
                     /\ handles' = handles
                     /\ collection' = collection]_vars

\* findOneSubdocument failed on a parent that is stored and has
\* subdocuments, none of which satisfies the filter.
NeverNullWitness ==
    /\ last = Result("findOneSubdocument", 0, "NotFoundError", <<>>)
    /\ \E i \in 1..Len(collection) :
           /\ SubPath \in DOMAIN collection[i]
           /\ collection[i][SubPath] # <<>>

\* The parent that the filter fetches has no element at subResource that
\* passes the predicate: the array has none, is empty, or is not there.
NoSuchElement(filter, predicate) ==
    LET i == FirstMatch(collection, filter)
    IN  /\ i # 0
        /\ \/ SubPath \notin DOMAIN collection[i]
           \/ \A j \in 1..Len(collection[i][SubPath]) :
                  collection[i][SubPath][j]["subResourceId"] # predicate

\* C11: findOneSubdocumentAndUpdate fails with the "Resource doesn't exist"
\* error whenever the fetched parent has no element at the path that
\* satisfies the predicate, also when the array is empty or the parent has
\* no field at the path, and nothing is written.
SubdocumentNotFound ==
    [][\A h \in Handles, filter \in Filters, predicate \in Predicates :
          (/\ last'.op = "findOneSubdocumentAndUpdate"
           /\ NoSuchElement(filter, predicate)
           /\ FindOneSubdocumentAndUpdate(h, RcOf(h), filter, predicate))
              => /\ last' = Result("findOneSubdocumentAndUpdate", 0, "NotFoundError", <<>>)
                 /\ collection' = collection
                 /\ handles' = handles]_vars

\* The call was made on a stored parent that has no field at subResource,
\* and failed on reading find of undefined.
SubdocumentNotFoundWitness ==
    /\ last = Result("findOneSubdocumentAndUpdate", 0, "TypeError", <<>>)
    /\ \E i \in 1..Len(collection) : SubPath \notin DOMAIN collection[i]
    /\ \A h \in Handles : handles[h].state = "free"

(***************************************************************************)
(* Properties of validation.                                               *)
(***************************************************************************)

\* TestSubResource and TestStorageSchema, read off the schema: the required
\* keys with their types, the array optional, changelogs not looked at.
SatisfiesSubSchema(sub) ==
    /\ {"subResourceId", "hello"} \subseteq DOMAIN sub
    /\ sub["subResourceId"].k = "oid"
    /\ sub["hello"].k = "str"

SatisfiesSchema(document) ==
    /\ "documentId" \in DOMAIN document
    /\ "someField" \in DOMAIN document
    /\ document["documentId"].k = "oid"
    /\ document["someField"].k = "str"
    /\ "subResource" \in DOMAIN document =>
           \A i \in 1..Len(document["subResource"]) :
               SatisfiesSubSchema(document["subResource"][i])

\* C12: when the input document fails schema validation, insertOne raises
\* the "Error validating" error before any database write: the collection
\* is the same after the failed call as before it.
InvalidInsertRejected ==
    [][\A rc \in RequestContexts, document \in ReadDocuments :
          (/\ last'.op = "insertOne"
           /\ ~SatisfiesSchema(document)
           /\ InsertOne(rc, document))
              => /\ last' = Result("insertOne", 0, "ValidationError", <<>>)
                 /\ collection' = collection
                 /\ nextId' = nextId]_vars

\* An insert of an invalid document has failed on a collection that holds
\* documents.
InvalidInsertRejectedWitness ==
    /\ last = Result("insertOne", 0, "ValidationError", <<>>)
    /\ Len(collection) = 1
    /\ nextId = 2

\* C13: every document held in the collection is schema-valid in every
\* reachable state: after any sequence of insertOne and commit calls, each
\* stored document, changelogs left aside, satisfies the schema.
StoredDocumentsValid ==
    \A i \in 1..Len(collection) :
        SatisfiesSchema(Omit(collection[i], {"_id", "changelogs"}))

\* A commit has stored a documentId that is a string.
StoredDocumentsValidWitness ==
    /\ last.op = "commit"
    /\ last.err = ""
    /\ \E i \in 1..Len(collection) :
           collection[i]["documentId"] = Str("not an id")

(***************************************************************************)
(* Properties of bootstrap.                                                *)
(***************************************************************************)

\* The key patterns of a set of indexes.
KeyPatterns(indexes) == {i.key : i \in indexes}

\* C14: when the bootstrap of a store runs to completion with no other
\* bootstrap running on the collection, the collection exists and the key
\* patterns of its live indexes are those desired and that of the
\* primary-key index: what was missing is created, what is not desired is dropped.
BootstrapConverges ==
    \A b \in Stores :
        (boots[b].pc = "done" /\ boots[b].alone)
            => /\ CollectionName \in collectionNames
               /\ KeyPatterns(dbIndexes) = KeyPatterns(boots[b].indexes) \cup {IdKey}

\* A store made with two indexes has bootstrapped; then a store made with
\* the first of them has, on its own, dropping the other index.
BootstrapConvergesWitness ==
    /\ boots[1].pc = "done"
    /\ boots[1].indexes = {someFieldIndex, companyIndex}
    /\ boots[1].issued = {"createCollection", "createIndexes"}
    /\ boots[2].pc = "done"
    /\ boots[2].alone
    /\ boots[2].indexes = {someFieldIndex}
    /\ boots[2].issued = {"dropIndex"}
    /\ KeyPatterns(dbIndexes) = {IdKey, SomeFieldKey}

\* C15: bootstrap is idempotent: a bootstrap begun with the catalogue as
\* its store desires it, and running with no other, issues no collection
\* creation, no index creation and no index drop, and the live indexes
\* stay as they were.
BootstrapIdempotent ==
    \A b \in Stores :
        (boots[b].alone /\ boots[b].converged)
            => /\ boots[b].issued = {}
               /\ CollectionName \in collectionNames
               /\ KeyPatterns(dbIndexes) = KeyPatterns(boots[b].indexes) \cup {IdKey}

\* After the bootstrap of a store made with two indexes, a second store
\* made with the same two has bootstrapped to its end.
BootstrapIdempotentWitness ==
    /\ boots[1].pc = "done"
    /\ boots[1].issued = {"createCollection", "createIndexes"}
    /\ boots[2].pc = "done"
    /\ boots[2].alone
    /\ boots[2].converged
    /\ boots[2].issued = {}
    /\ boots[2].indexes = boots[1].indexes
    /\ boots[2].indexes = {someFieldIndex, companyIndex}

\* C16: the primary-key index is never dropped by bootstrap: an existing
\* collection has it in every reachable state, and no bootstrap has it
\* among the indexes it removes, whatever the desired sets (the empty set
\* and a set listing {_id: 1} among them) and however the bootstraps of
\* several stores interleave.
PrimaryIndexKept ==
    /\ CollectionName \in collectionNames => PrimaryIndex \in dbIndexes
    /\ \A b \in Stores : IdKey \notin KeyPatterns(boots[b].removedIndexes)

\* A store made with no index and a store whose indexes list {_id: 1} have
\* bootstrapped at the same time, the first dropping what the second made.
PrimaryIndexKeptWitness ==
    \E b, c \in Stores :
        /\ boots[b].indexes = {}
        /\ "dropIndex" \in boots[b].issued
        /\ IdKey \in KeyPatterns(boots[c].indexes)
        /\ "createIndexes" \in boots[c].issued
        /\ ~boots[b].alone
        /\ ~boots[c].alone
        /\ boots[b].pc \in {"done", "failed"}
        /\ boots[c].pc \in {"done", "failed"}
        /\ PrimaryIndex \in dbIndexes

\* The bootstrap of store b is pending or has failed.
NotBootstrapped(b) == boots[b].pc \notin {"idle", "done"}

BootstrapEventuallyConverges ==
    \A b \in Stores :
        (Running(b) /\ boots[b].alone)
            ~> \/ ~boots[b].alone
               \/ /\ CollectionName \in collectionNames
                  /\ KeyPatterns(dbIndexes) = KeyPatterns(boots[b].indexes) \cup {IdKey}

\* The bootstrap of the only store made has failed at the create command,
\* an insert having made the collection, and no index of those desired is there.
BootstrapEventuallyConvergesWitness ==
    /\ boots[1].pc = "failed"
    /\ boots[1].alone
    /\ boots[1].issued = {"createCollection"}
    /\ boots[1].indexes = {someFieldIndex, companyIndex}
    /\ boots[2].pc = "idle"
    /\ dbIndexes = {PrimaryIndex}
    /\ last.op = "insertOne"

(***************************************************************************)
(* Properties of the connection.                                           *)
(***************************************************************************)

\* C19: a connectDb call made while a connection is established fails with
\* the error and never connects; the call leaves GLOBAL_CONNECTION as it
\* was, and db(), which answers with GLOBAL_CONNECTION, returns after the
\* call what it returned before.
ConnectWhileConnectedFails ==
    [][/\ \A c \in Clients :
              /\ (clients[c] = "none" /\ clients'[c] # "none"
                      /\ GLOBAL_CONNECTION # NoConnection)
                     => /\ clients'[c] = "rejected"
                        /\ GLOBAL_CONNECTION' = GLOBAL_CONNECTION
                        /\ dbCalls' = dbCalls
              /\ clients[c] = "rejected"
                     => clients'[c] = "rejected" /\ GLOBAL_CONNECTION' # c
       /\ \A d \in DbCalls :
              (dbCalls[d].pc = "idle" /\ dbCalls'[d].pc = "resolved")
                  => dbCalls'[d].value = GLOBAL_CONNECTION]_vars

ConnectWhileConnectedFailsWitness ==
    /\ clients[1] = "connected"
    /\ clients[2] = "rejected"
    /\ GLOBAL_CONNECTION = 1
    /\ \A d \in {1, 2} :
           dbCalls[d] = [pc |-> "resolved", value |-> 1, waited |-> FALSE]

\* C20: a db() call made before a connection is established resolves only
\* with the client of a connectDb call that has succeeded; while there is
\* no connection it stays as it is, and it never ends in any way but by
\* resolving with the connection established at that time; once a connectDb
\* call has succeeded every such call is resolved in the end.
PendingDbResolves ==
    /\ [](\A d \in DbCalls :
              dbCalls[d].pc = "resolved"
                  => /\ dbCalls[d].value \in Clients
                     /\ clients[dbCalls[d].value] = "connected")
    /\ [][\A d \in DbCalls :
              dbCalls[d].pc = "polling"
                  => /\ dbCalls'[d].pc \in {"polling", "resolved"}
                     /\ GLOBAL_CONNECTION = NoConnection => dbCalls'[d] = dbCalls[d]
                     /\ dbCalls'[d].pc = "resolved"
                            => dbCalls'[d].value = GLOBAL_CONNECTION]_vars
    /\ \A d \in DbCalls, c \in Clients :
           (dbCalls[d].pc = "polling" /\ clients[c] = "connected")
               ~> (dbCalls[d].pc = "resolved" /\ dbCalls[d].waited)

PendingDbResolvesWitness ==
    /\ dbCalls[1] = [pc |-> "resolved", value |-> 2, waited |-> TRUE]
    /\ dbCalls[2].pc = "polling"
    /\ clients[1] = "failed"
    /\ clients[2] = "connected"

\* C21: the connection is established once: of all connectDb calls, however
\* they interleave, at most one succeeds and opens a client connection, and
\* all db() calls that have returned have returned the same connection.
SingleConnection ==
    /\ Cardinality({c \in Clients : clients[c] = "connected"}) <= 1
    /\ \A d, e \in DbCalls :
           (dbCalls[d].pc = "resolved" /\ dbCalls[e].pc = "resolved")
               => dbCalls[d].value = dbCalls[e].value

SingleConnectionWitness ==
    /\ clients[1] = "connected"
    /\ clients[2] = "connected"
    /\ GLOBAL_CONNECTION = 2
    /\ dbCalls[1] = [pc |-> "resolved", value |-> 1, waited |-> FALSE]
    /\ dbCalls[2] = [pc |-> "resolved", value |-> 2, waited |-> FALSE]

(***************************************************************************)
(* Properties of findMany and findOne.                                     *)
(***************************************************************************)

\* The whole filtered, sorted result: the one page that holds everything.
WholeResult(filter, sort) ==
    findMany(collection, filter, sort, Len(collection) + 1, 1).ret

\* The pages 1..n one after another.
RECURSIVE PagesConcatenated(_, _, _, _)
PagesConcatenated(filter, sort, limit, n) ==
    IF n = 0 THEN <<>>
    ELSE PagesConcatenated(filter, sort, limit, n - 1)
             \o findMany(collection, filter, sort, limit, n).ret

\* C22: for limit >= 1 and page >= 1 findMany returns the elements at
\* positions limit*(page-1) .. limit*page-1 (counted from 0) of the
\* filtered, sorted result and no others: pages do not overlap, the pages
\* up to some page put one after another are the result up to there, all of
\* it once the pages reach its end, and a page past the end is empty, not
\* an error.
Pagination ==
    \A filter \in ManyFilters \ OtherDateFilters, sort \in Sorts, limit \in Limits :
        LET whole == WholeResult(filter, sort)
        IN  \A page \in Pages :
                LET got == findMany(collection, filter, sort, limit, page)
                    from == limit * (page - 1)
                    count == IF Len(whole) <= from THEN 0
                             ELSE IF Len(whole) - from < limit THEN Len(whole) - from
                             ELSE limit
                IN  /\ got.err = ""
                    /\ got.ret = [i \in 1..count |-> whole[from + i]]
                    /\ PagesConcatenated(filter, sort, limit, page)
                           = SubSeq(whole, 1, IF Len(whole) <= from THEN Len(whole)
                                              ELSE from + count)
                    /\ limit * page >= Len(whole)
                           => PagesConcatenated(filter, sort, limit, page) = whole

PaginationWitness ==
    /\ Len(collection) = 4
    /\ last.op = "findMany"
    /\ last.args = [filter |-> EmptyDoc, sort |-> <<<<"resourceId", -1>>>>,
                    limit |-> 2, page |-> 2]
    /\ last.ret = <<PageDocument(4), PageDocument(2)>>
    /\ findMany(collection, EmptyDoc, <<<<"resourceId", -1>>>>, 2, 1).ret
           = <<PageDocument(1), PageDocument(3)>>
    /\ findMany(collection, EmptyDoc, <<<<"resourceId", -1>>>>, 2, 3).ret = <<>>

\* C23: in findMany a filter entry whose value is falsy (undefined, null,
\* false, 0, the empty string) is dropped: the call returns what the same
\* call returns with that entry taken out of the filter.
FalsyEntriesDropped ==
    \A filter \in ManyFilters :
        \A key \in DOMAIN filter :
            IsFalsy(filter[key]) =>
                \A sort \in Sorts, limit \in Limits, page \in Pages :
                    LET with == findMany(collection, filter, sort, limit, page)
                        without == findMany(collection, Omit(filter, {key}),
                                            sort, limit, page)
                    IN  with.err = without.err /\ with.ret = without.ret

FalsyEntriesDroppedWitness ==
    /\ last.op = "findMany"
    /\ last.args.filter = [unshippedCount |-> Num("0")]
    /\ last.err = ""
    /\ Len(last.ret) = 2
    /\ \A i \in 1..2 : "unshippedCount" \in DOMAIN last.ret[i]
    /\ last.ret[1]["unshippedCount"] = Num("0")
    /\ last.ret[2]["unshippedCount"] = Num("2")

\* The dates a filter of the model may hold.
FilterDates == {May26, May27, May28, May30}

\* The documents of the collection, in natural order and without _id, whose
\* field holds a date after (sign 1) or before (sign -1) the date of text t.
\* A stored date is the string toISOString gave of it.
SelectedByDate(field, sign, t) ==
    LET hit(doc) ==
            /\ field \in DOMAIN doc
            /\ sign * TextRank(doc[field].v) > sign * TextRank(t)
        found == SelectSeq(collection, hit)
    IN  [i \in 1..Len(found) |-> Project(found[i])]

\* C24: a date under purchasedAfter, updatedAfter or shouldShipBy selects
\* the documents whose purchaseDate is strictly after it, whose lastChanged
\* is strictly after it, whose latestShipDate is strictly before it; a
\* document whose field equals the date is not selected, and no field of
\* the operator's own name is asked for.
DateOperatorsStrict ==
    \A t \in FilterDates :
        /\ findMany(collection, [purchasedAfter |-> Date(t)], <<>>, DefaultLimit, 1).ret
               = SelectedByDate("purchaseDate", 1, t)
        /\ findMany(collection, [updatedAfter |-> Date(t)], <<>>, DefaultLimit, 1).ret
               = SelectedByDate("lastChanged", 1, t)
        /\ findMany(collection, [shouldShipBy |-> Date(t)], <<>>, DefaultLimit, 1).ret
               = SelectedByDate("latestShipDate", -1, t)

DateOperatorsStrictWitness ==
    /\ last.op = "findMany"
    /\ last.args.filter = [purchasedAfter |-> Date(May26)]
    /\ Len(collection) = 2
    /\ "purchaseDate" \in DOMAIN collection[1]
    /\ collection[1]["purchaseDate"] = Str(May26)
    /\ Len(last.ret) = 1
    /\ last.ret[1]["purchaseDate"] = Str(May28)

\* The documents of the collection, in natural order and without _id, whose
\* field holds the date of text t.
SelectedByEquality(field, t) ==
    LET hit(doc) == field \in DOMAIN doc /\ doc[field].v = t
        found == SelectSeq(collection, hit)
    IN  [i \in 1..Len(found) |-> Project(found[i])]

\* C25: a date under a key that is none of the three operator names is an
\* equality test on that field: the call succeeds and returns the documents
\* whose field is that date.
OtherDatesAreEqualities ==
    \A t \in FilterDates :
        LET got == findMany(collection, [purchaseDate |-> Date(t)], <<>>, DefaultLimit, 1)
        IN  got.err = "" /\ got.ret = SelectedByEquality("purchaseDate", t)

OtherDatesAreEqualitiesWitness ==
    /\ last.op = "findMany"
    /\ last.args.filter = [purchaseDate |-> Date(May26)]
    /\ last.err = "TypeError"
    /\ Len(collection) = 1
    /\ "purchaseDate" \in DOMAIN collection[1]
    /\ collection[1]["purchaseDate"] = Str(May26)

\* The filter of the test that names two channels.
TwoChannels == [channel |-> Array(<<Str("alza_cz"), Str("amazon_de")>>)]

\* C26: findOne reads its filter as findMany does: for every filter findMany
\* can translate, findOne(filter) succeeds exactly when findMany(filter)
\* returns something, and returns one of the documents findMany returns.
FindOneTranslatesFilter ==
    \A filter \in ManyFilters \ OtherDateFilters :
        LET one == findOne(collection, filter)
            many == WholeResult(filter, <<>>)
        IN  /\ one.err = "" <=> many # <<>>
            /\ one.err = "" => \E i \in 1..Len(many) : many[i] = one.ret[1]

FindOneTranslatesFilterWitness ==
    /\ last.op = "findOne"
    /\ last = findOne(collection, TwoChannels)
    /\ last.err = "NotFoundError"
    /\ Len(WholeResult(TwoChannels, <<>>)) = 2

(***************************************************************************)
(* Properties of the subdocument reads.                                    *)
(***************************************************************************)

\* obj has every key of filter with the value filter gives it.
HasAll(obj, filter) ==
    \A key \in DOMAIN filter : key \in DOMAIN obj /\ obj[key] = filter[key]

\* The elements matching subFilter of the arrays of the documents matching
\* parentFilter: documents in natural order, elements in array order.
RECURSIVE ElementsOf(_, _, _)
ElementsOf(coll, parentFilter, subFilter) ==
    IF coll = <<>> THEN <<>>
    ELSE LET doc == Head(coll)
             elements == IF HasAll(doc, parentFilter) /\ SubPath \in DOMAIN doc
                             THEN doc[SubPath] ELSE <<>>
         IN  SelectSeq(elements, LAMBDA e : HasAll(e, subFilter))
                 \o ElementsOf(Tail(coll), parentFilter, subFilter)

\* C27: findManySubdocuments returns the elements matching subFilter of the
\* array at the path of every document matching parentFilter, and nothing
\* else: bare elements with no field of their parent, in array order, none
\* for a parent whose array is missing or empty; findOneSubdocument returns
\* the first of them.
SubdocumentsSelected ==
    \A filter \in Filters, sub \in SubFilters :
        LET expected == ElementsOf(collection, filter, sub)
            one == findOneSubdocument(collection, filter, sub)
        IN  /\ findManySubdocuments(collection, filter, sub) = expected
            /\ expected # <<>> => one.err = "" /\ one.ret = <<expected[1]>>

SubdocumentsSelectedWitness ==
    /\ Len(collection) = 2
    /\ SubPath \in DOMAIN collection[1] /\ Len(collection[1][SubPath]) = 2
    /\ SubPath \in DOMAIN collection[2] /\ collection[2][SubPath] = <<>>
    /\ last.op = "findManySubdocuments"
    /\ last.ret = <<collection[1][SubPath][2]>>

(***************************************************************************)
(* Properties of the edits of a changelog entry.                           *)
(***************************************************************************)

\* The update set differs from the fetched document in the scalar field key
\* and in nothing else.
OneScalarChange(original, set, key) ==
    /\ key \in DOMAIN original \cap DOMAIN set
    /\ key \notin ArrayKeys
    /\ original[key] # set[key]
    /\ \A other \in DOMAIN set \ {key} :
           other \in DOMAIN original /\ original[other] = set[other]

\* C28: a commit whose update differs from the fetched document in exactly
\* one top-level scalar field appends an entry of exactly one edit: an
\* Edited record with that field for path, the fetched value for lhs and
\* the new value for rhs, also when the update is the whole fetched
\* document with that one field changed.
SingleEdit ==
    [][\A h \in Handles, key \in {"documentId", "someField"} :
          (/\ handles[h].state = "committing"
           /\ handles'[h].commits = handles[h].commits + 1
           /\ last'.err = ""
           /\ OneScalarChange(handles[h].originalDocument, handles[h].query.set, key))
              => \E id \in 1..MaxDocs :
                     /\ Len(applied'[id]) = Len(applied[id]) + 1
                     /\ LET entry == applied'[id][Len(applied'[id])].entry
                        IN  /\ applied'[id] = Append(applied[id], [by |-> h, entry |-> entry])
                            /\ ChangelogsOf(collection', id)
                                   = Append(ChangelogsOf(collection, id), entry)
                            /\ entry.changes
                                   = <<DiffEdit(<<key>>,
                                                JsonScalar(handles[h].originalDocument[key]),
                                                JsonScalar(handles[h].query.set[key]))>>]_vars

SingleEditWitness ==
    /\ last.op = "commit"
    /\ last.err = ""
    /\ last.by = 1
    /\ handles[1].commits = 1
    /\ handles[1].reference
           = [documentId |-> Oid(DocA), someField |-> Str("yodaddy"),
              subResource |-> TwoSubs]
    /\ handles[1].originalDocument
           = [documentId |-> Oid(DocA), someField |-> Str("yomama"),
              subResource |-> TwoSubs]
    /\ Len(last.ret[1]["changelogs"]) = 2
    /\ last.ret[1]["changelogs"][2].changes
           = <<DiffEdit(<<"someField">>, Str("yomama"), Str("yodaddy"))>>

(***************************************************************************)
(* Properties of createChangelog as a function.                            *)
(***************************************************************************)

\* An array once the item of an array change is applied at the index: a
\* new element is put at the index, a deleted one is taken out of it.
ApplyArrayItem(arr, index, item) ==
    IF item.kind = "N"
        THEN [j \in DOMAIN arr \cup {index + 1} |->
                 IF j = index + 1 THEN item.rhs ELSE arr[j]]
        ELSE [j \in 1..(Len(arr) - 1) |-> IF j < index + 1 THEN arr[j] ELSE arr[j + 1]]

\* An object once an edit of one of its keys is applied: New inserts,
\* Edited replaces, Deleted removes.
ApplyAtKey(obj, key, e) ==
    IF e.kind = "D" THEN Omit(obj, {key}) ELSE Assign(obj, key :> e.rhs)

\* A document once one edit is applied at the edit's path.
ApplyEdit(doc, e) ==
    LET key == e.path[1]
    IN  IF Len(e.path) = 1
            THEN IF e.kind = "A"
                     THEN Assign(doc, key :> ApplyArrayItem(doc[key], e.index, e.item))
                     ELSE ApplyAtKey(doc, key, e)
            ELSE Assign(doc, key :>
                     [doc[key] EXCEPT ![e.path[2] + 1] = ApplyAtKey(@, e.path[3], e)])

RECURSIVE ApplyEdits(_, _)
ApplyEdits(doc, edits) ==
    IF edits = <<>> THEN doc
    ELSE ApplyEdits(ApplyEdit(doc, Head(edits)), Tail(edits))

\* No value of the document, nor of the elements of its array, is an ObjectId.
HoldsNoObjectId(doc) ==
    \A key \in DOMAIN doc :
        IF key = SubPath
            THEN \A i \in DOMAIN doc[key] : \A k \in DOMAIN doc[key][i] :
                     doc[key][i][k].k # "oid"
            ELSE doc[key].k # "oid"

\* The edits of the latest call of createChangelog, applied to its original.
EditsApplied == ApplyEdits(last.args.originalOrder, last.ret[1].changes)

\* C29: after every call of createChangelog, applying the edits of the entry
\* it returned to the original gives exactly the update laid over the
\* original, and both arguments are as they were before the call.
RoundTrip ==
    last.op = "createChangelog"
        => /\ EditsApplied = Assign(last.args.originalOrder, last.args.updates)
           /\ last.left = last.args

\* A call on a serialized document of the store with an update that brings
\* the array of subdocuments: the one edit holds the identifiers of the
\* subdocuments as strings, and so does the document the edit gives.
RoundTripWitness ==
    /\ last.op = "createChangelog"
    /\ last.args.originalOrder = [documentId |-> Oid(DocA), someField |-> Str("yomama")]
    /\ last.args.updates = [subResource |-> TwoSubs]
    /\ last.ret[1].changes = <<DiffNew(<<"subResource">>, JsonArray(TwoSubs))>>
    /\ EditsApplied[SubPath][1]["subResourceId"] = Str(SubA)
    /\ Assign(last.args.originalOrder, last.args.updates)[SubPath][1]["subResourceId"]
           = Oid(SubA)

\* The law holds of every call whose arguments hold no ObjectId.
RoundTripOfPlainObjects ==
    (/\ last.op = "createChangelog"
     /\ HoldsNoObjectId(last.args.originalOrder)
     /\ HoldsNoObjectId(last.args.updates))
        => EditsApplied = Assign(last.args.originalOrder, last.args.updates)

\* No call changes either of its arguments.
ArgumentsUntouched == last.op = "createChangelog" => last.left = last.args

(***************************************************************************)
(* Properties of the documents returned.                                   *)
(***************************************************************************)
ReturningOperations == {"insertOne", "findOne", "findMany", "commit"}

\* C30: whenever the latest call is one of insertOne, findOne, findMany and
\* commit, none of the documents it returned has the field _id.
NoPrimaryKeyReturned ==
    last.op \in ReturningOperations
        => \A i \in DOMAIN last.ret : "_id" \notin DOMAIN last.ret[i]

\* A commit has returned the document it wrote, which is stored with its
\* _id, and so has a findMany returned two stored documents.
NoPrimaryKeyReturnedWitness ==
    /\ Len(collection) = 2
    /\ \A i \in 1..2 : "_id" \in DOMAIN collection[i]
    /\ \/ /\ last.op = "commit"
          /\ last.err = ""
          /\ \E i \in 1..2 : last.ret = <<Omit(collection[i], {"_id"})>>
          /\ handles[1].commits = 2
       \/ /\ last.op = "findMany"
          /\ last.err = ""
          /\ last.ret = [i \in 1..2 |-> Omit(collection[i], {"_id"})]

(***************************************************************************)
(* Properties of the snapshot a commit diffs against.                      *)
(***************************************************************************)

\* The value an edit names as its lhs, read from a document: the JSON form
\* of the value at the edit's path, or of the array element at its index.
LhsIn(doc, e) ==
    IF e.kind = "A" THEN JsonSub(doc[e.path[1]][e.index + 1])
    ELSE IF Len(e.path) = 1 THEN JsonAt(e.path, doc[e.path[1]])
    ELSE JsonScalar(doc[e.path[1]][e.path[2] + 1][e.path[3]])

\* The edits that have an lhs: Edited, Deleted, and the array changes that
\* take an element out.
HasLhs(e) == e.kind \in {"E", "D"} \/ (e.kind = "A" /\ e.item.kind = "D")

LhsOf(e) == IF e.kind = "A" THEN e.item.lhs ELSE e.lhs

\* C31: the closure's originalDocument is the stored document at the fetch;
\* no step after the fetch changes it but for commit's removal of its
\* changelogs, whatever the caller assigns to the document reference or to
\* the subdocument reference; and the lhs of every edit of the entry a
\* commit builds is the value that original holds at the edit's path.
SnapshotKept ==
    [][\A h \in Handles :
          /\ (handles[h].state = "free" /\ handles'[h].state = "open")
                 => /\ Present(collection, handles'[h].fetchedId)
                    /\ handles'[h].originalDocument
                           = Project(DocumentOf(collection, handles'[h].fetchedId))
          /\ handles[h].state # "free"
                 => StripChangelogs(handles'[h].originalDocument)
                        = StripChangelogs(handles[h].originalDocument)
          /\ (handles[h].state = "open" /\ handles'[h].state = "committing")
                 => LET changes == handles'[h].query.push["changelogs"].changes
                    IN  \A n \in 1..Len(changes) :
                            HasLhs(changes[n])
                                => LhsOf(changes[n])
                                       = LhsIn(handles[h].originalDocument, changes[n])]_vars

\* A caller changed someField of its document reference and another hello
\* of its subdocument reference; each then invoked commit with its document
\* reference, and the edit of each entry has the fetched value as lhs.
SnapshotKeptWitness ==
    /\ \E h \in Handles :
           /\ handles[h].state = "committing"
           /\ handles[h].subIndex = 0
           /\ handles[h].reference["someField"] = Str("yodaddy")
           /\ handles[h].originalDocument["someField"] = Str("yomama")
           /\ handles[h].query.push["changelogs"].changes
                  = <<DiffEdit(<<"someField">>, Str("yomama"), Str("yodaddy"))>>
    /\ \E h \in Handles :
           /\ handles[h].state = "committing"
           /\ handles[h].subIndex = 2
           /\ handles[h].originalDocument[SubPath][2]["hello"] = Str("how are you")
           /\ handles[h].query.push["changelogs"].changes
                  = <<DiffEdit(<<SubPath, 1, "hello">>,
                              Str("how are you"), Str("can you hear me"))>>

(***************************************************************************)
(* Properties of the document a commit writes to.                          *)
(***************************************************************************)

\* C32: every write a commit has applied is on the document its closure's
\* findOneAndUpdate call fetched: whatever was inserted, deleted or committed
\* between the fetch and the commit, and whichever documents the filter
\* matches, the $set and the changelog entry go to no other document.
CommitWritesFetched ==
    \A id \in 1..MaxDocs : \A p \in 1..Len(applied[id]) :
        handles[applied[id][p].by].fetchedId = id

\* A closure fetched the first document by someField; another commit then
\* changed someField of that document, and the closure's commit, made with
\* the same filter, was applied to the second document, whose changelog
\* now holds an entry diffed against the first.
CommitWritesFetchedWitness ==
    /\ last.op = "commit"
    /\ last.err = ""
    /\ last.by \in Handles
    /\ handles[last.by].fetchedId = 1
    /\ handles[last.by].filter = [someField |-> Str("yomama")]
    /\ Len(applied[2]) = 1
    /\ applied[2][1].by = last.by
    /\ Present(collection, 1)
    /\ Present(collection, 2)
    /\ DocumentOf(collection, 1)["someField"] # Str("yomama")
    /\ last.ret[1]["documentId"] = DocumentOf(collection, 2)["documentId"]
    /\ last.ret[1]["documentId"] # handles[last.by].originalDocument["documentId"]

(***************************************************************************)
(* Properties of the changelog as an audit trail.                          *)
(***************************************************************************)

\* The JSON form of the fields of a document other than _id and changelogs.
JsonDocument(doc) ==
    LET fields == StripChangelogs(Project(doc))
    IN  [key \in DOMAIN fields |-> JsonAt(<<key>>, fields[key])]

\* The document a stored document was inserted as: the documents of Spec
\* differ in documentId, which no update of Spec changes.
InsertedAs(doc) ==
    CHOOSE document \in ValidDocuments :
        serialize(document)["documentId"] = doc["documentId"]

\* Whether an edit has a place in the document to be applied at.
CanApply(doc, e) ==
    \/ Len(e.path) = 1 /\ e.kind # "A"
    \/ /\ e.path[1] \in DOMAIN doc
       /\ \/ e.kind = "A"
          \/ Len(e.path) = 3 /\ e.path[2] + 1 \in DOMAIN doc[e.path[1]]

\* The edits applied in order; an edit with no place to be applied at
\* leaves a mark of its own in the result.
RECURSIVE Replay(_, _)
Replay(doc, edits) ==
    IF edits = <<>> THEN doc
    ELSE IF CanApply(doc, Head(edits))
        THEN Replay(ApplyEdit(doc, Head(edits)), Tail(edits))
    ELSE Replay(Assign(doc, [inapplicable |-> Head(edits)]), Tail(edits))

\* The edits of all the entries of a changelog, in changelog order.
RECURSIVE AllEdits(_)
AllEdits(changelogs) ==
    IF changelogs = <<>> THEN <<>>
    ELSE Head(changelogs).changes \o AllEdits(Tail(changelogs))

\* C33: in every reachable state and for every stored document, the edits
\* of all its changelog entries, applied in changelog order to the document
\* as it was inserted, give the fields the stored document has now.
AuditTrail ==
    \A i \in 1..Len(collection) :
        Replay(JsonDocument(serialize(InsertedAs(collection[i]))),
               AllEdits(collection[i]["changelogs"]))
            = JsonDocument(collection[i])

\* Two closures fetched the first document.  One committed a new someField;
\* the other then committed its document reference unchanged: its $set
\* wrote the someField of the fetch back, and its entry has no edit.  The
\* changelog tells of the change to yodaddy only, and yomama is stored.
AuditTrailWitness ==
    /\ Len(collection) >= 1
    /\ collection[1]["documentId"] = Oid(DocA)
    /\ collection[1]["someField"] = Str("yomama")
    /\ Len(collection[1]["changelogs"]) = 3
    /\ collection[1]["changelogs"][2].changes
           = <<DiffEdit(<<"someField">>, Str("yomama"), Str("yodaddy"))>>
    /\ collection[1]["changelogs"][3].changes = <<>>
    /\ Len(applied[1]) = 2
    /\ applied[1][1].by # applied[1][2].by

(***************************************************************************)
(* Properties of the timestamps.                                           *)
(***************************************************************************)

\* C34: in every reachable state the timestamps of the entries of each
\* stored document's changelog are non-decreasing in changelog order.
TimestampsOrdered ==
    \A i \in 1..Len(collection) :
        LET changelogs == collection[i]["changelogs"]
        IN  \A p, q \in 1..Len(changelogs) :
                p < q => changelogs[p].timestamp <= changelogs[q].timestamp

\* Two closures on the first document: the one that built its entry first,
\* at time 0, made its database call after the one that built its entry at
\* time 1, so the entry of time 0 is stored after the entry of time 1.
TimestampsOrderedWitness ==
    /\ Len(collection) >= 1
    /\ Len(collection[1]["changelogs"]) = 3
    /\ collection[1]["changelogs"][2].timestamp = 1
    /\ collection[1]["changelogs"][3].timestamp = 0
    /\ Len(applied[1]) = 2
    /\ applied[1][1].by # applied[1][2].by
    /\ now = 1

(***************************************************************************)
(* Properties of two subdocument updates of one parent.                    *)
(***************************************************************************)

\* Closures a and b fetched the document id before any commit was applied
\* to it, each mutated hello of a different subdocument through its
\* subdocument reference, each committed its document reference once, and
\* the commit of a was applied before the commit of b.
TwoSubdocumentCommits(a, b, id) ==
    /\ a # b
    /\ \A h \in {a, b} :
           /\ handles[h].state = "open"
           /\ handles[h].commits = 1
           /\ handles[h].fetchedId = id
           /\ handles[h].fetchedAt = 0
           /\ handles[h].subIndex # 0
           /\ handles[h].reference[SubPath][handles[h].subIndex]["hello"]
                  # handles[h].originalDocument[SubPath][handles[h].subIndex]["hello"]
    /\ handles[a].subIndex # handles[b].subIndex
    /\ Present(collection, id)
    /\ Len(applied[id]) = 2
    /\ applied[id][1].by = a
    /\ applied[id][2].by = b

\* The value closure h gave to hello of its subdocument.
MutatedHello(h) == handles[h].reference[SubPath][handles[h].subIndex]["hello"]

\* hello of the subdocument of closure h, as stored in the document id.
StoredHello(h, id) == DocumentOf(collection, id)[SubPath][handles[h].subIndex]["hello"]

\* C35 as stated: after both commits the stored document holds both
\* subdocument mutations.
BothMutationsStored ==
    \A a, b \in Handles, id \in 1..MaxDocs :
        TwoSubdocumentCommits(a, b, id)
            => /\ StoredHello(a, id) = MutatedHello(a)
               /\ StoredHello(b, id) = MutatedHello(b)

\* C35: after both commits the stored array is the array of the document
\* reference committed last: it holds the mutation of the later commit,
\* the subdocument of the earlier commit is back at the value fetched, and
\* the changelog holds the entries of both commits in the order applied,
\* each with the one edit of its own subdocument.
LaterArrayStored ==
    \A a, b \in Handles, id \in 1..MaxDocs :
        TwoSubdocumentCommits(a, b, id)
            => /\ DocumentOf(collection, id)[SubPath]
                      = SerializeArray(handles[b].reference[SubPath])
               /\ StoredHello(b, id) = MutatedHello(b)
               /\ StoredHello(a, id)
                      = handles[a].originalDocument[SubPath][handles[a].subIndex]["hello"]
               /\ Len(ChangelogsOf(collection, id)) = 3
               /\ SubSeq(ChangelogsOf(collection, id), 2, 3)
                      = <<applied[id][1].entry, applied[id][2].entry>>
               /\ \A h \in {a, b}, p \in 1..2 :
                      applied[id][p].by = h
                          => applied[id][p].entry.changes
                                 = <<DiffEdit(<<SubPath, handles[h].subIndex - 1, "hello">>,
                                       JsonScalar(handles[h].originalDocument[SubPath]
                                                      [handles[h].subIndex]["hello"]),
                                       JsonScalar(MutatedHello(h)))>>

\* The first closure took the first subdocument and the second the second;
\* both committed, the first before the second, and the stored array has
\* the second mutation only.
LaterArrayStoredWitness ==
    /\ TwoSubdocumentCommits(1, 2, 1)
    /\ handles[1].subIndex = 1
    /\ handles[2].subIndex = 2
    /\ DocumentOf(collection, 1)[SubPath][1]["hello"] = Str("it's me")
    /\ DocumentOf(collection, 1)[SubPath][2]["hello"] = Str("can you hear me")
    /\ last.op = "commit"
    /\ last.err = ""
    /\ last.by = 2

(***************************************************************************)
(* Properties of a commit that changes nothing.                            *)
(***************************************************************************)

\* The commit in flight on handle h has an update that leaves every field
\* as fetched.
NoopCommit(h) ==
    /\ handles[h].state = "committing"
    /\ Assign(serialize(handles[h].originalDocument), handles[h].query.set)
           = serialize(handles[h].originalDocument)

\* The database call of h succeeds and appends one entry without edits to
\* one document, whose other fields stay as they are.
NoopApplied(h) ==
    /\ last'.err = ""
    /\ \E id \in 1..MaxDocs :
           /\ Present(collection, id)
           /\ Len(applied'[id]) = Len(applied[id]) + 1
           /\ LET entry == applied'[id][Len(applied'[id])].entry
              IN  /\ applied'[id] = Append(applied[id], [by |-> h, entry |-> entry])
                  /\ entry.changes = <<>>
                  /\ ChangelogsOf(collection', id)
                         = Append(ChangelogsOf(collection, id), entry)
                  /\ StripChangelogs(DocumentOf(collection', id))
                         = StripChangelogs(DocumentOf(collection, id))

\* The step is the database call of the commit in flight on handle h.
CommitReturns(h) ==
    handles[h].state = "committing" /\ handles'[h].commits = handles[h].commits + 1

\* C36: the database call of a commit whose update leaves every field
\* deep-equal to the fetched document succeeds, appends exactly one
\* changelog entry, of no edits, and leaves all other fields of the stored
\* document unchanged.
NoopCommitKeeps ==
    [][\A h \in Handles : (NoopCommit(h) /\ CommitReturns(h)) => NoopApplied(h)]_vars

\* commit({}) on a fetched document: the database rejected the $set of no
\* field, commit threw its error, and the changelog is as the insert left it.
NoopCommitKeepsWitness ==
    /\ last.op = "commit"
    /\ last.err = "MongoError"
    /\ last.by \in Handles
    /\ handles[last.by].commits = 1
    /\ Len(collection) = 1
    /\ Len(collection[1]["changelogs"]) = 1
    /\ applied[1] = <<>>

\* The claim holds of the commits that name a field and whose document no
\* other commit has written since the fetch.
NoopCommitKeepsIfFresh ==
    [][\A h \in Handles :
          (/\ NoopCommit(h)
           /\ CommitReturns(h)
           /\ ~EmptyModifier(handles[h].query)
           /\ Len(applied[handles[h].fetchedId]) = handles[h].fetchedAt)
              => NoopApplied(h)]_vars

(***************************************************************************)
(* Properties of two bootstraps with different desired indexes.            *)
(***************************************************************************)

\* Stores b and c were made with different desired index sets, their
\* bootstraps ran at the same time, and both have run to their end.
BothBootstrapped(b, c) ==
    /\ b # c
    /\ boots[b].pc = "done"
    /\ boots[c].pc = "done"
    /\ ~boots[b].alone
    /\ ~boots[c].alone
    /\ {ixSpecificationIdentity(i) : i \in boots[b].indexes} \cup {IdKey}
           # {ixSpecificationIdentity(i) : i \in boots[c].indexes} \cup {IdKey}

\* C37: once two such bootstraps have both finished, the live indexes are
\* the desired indexes of one of the two stores and the primary-key index.
InterleavedBootstrapsAgree ==
    \A b, c \in Stores :
        BothBootstrapped(b, c)
            => AsDesired(boots[b].indexes) \/ AsDesired(boots[c].indexes)

\* One store wants the index on someField and the other the index on
\* companyId; both listed the indexes before either created its own, and
\* with both bootstraps done both indexes are live, which neither wants.
InterleavedBootstrapsAgreeWitness ==
    /\ BothBootstrapped(1, 2)
    /\ boots[1].indexes = {someFieldIndex}
    /\ boots[2].indexes = {[key |-> IdKey], companyIndex}
    /\ "createIndexes" \in boots[1].issued
    /\ "createIndexes" \in boots[2].issued
    /\ dbIndexes = {PrimaryIndex, LiveIndex(SomeFieldKey), LiveIndex(CompanyKey)}

(***************************************************************************)
(* Properties of disconnecting.                                            *)
(***************************************************************************)

\* C38: the connection lifecycle is re-enterable: a disconnectDb call made
\* with a connection leaves the process not connected, a connectDb call
\* made after the connection was closed goes on to connect and is not
\* rejected as already connected, and a disconnectDb call made with no
\* connection changes nothing of the connection.
LifecycleReenterable ==
    [][/\ (DisconnectDb /\ GLOBAL_CONNECTION # NoConnection)
              => GLOBAL_CONNECTION' = NoConnection
       /\ \A c \in Clients :
              (/\ ConnectDb(c)
               /\ GLOBAL_CONNECTION # NoConnection
               /\ \A e \in Clients : clients[e] # "connected")
                  => clients'[c] = "connecting"
       /\ (DisconnectDb /\ GLOBAL_CONNECTION = NoConnection)
              => UNCHANGED connVars]_vars

\* The first connectDb call succeeded, disconnectDb closed its client, and
\* the connectDb call that followed was rejected.
LifecycleReenterableWitness ==
    /\ clients[1] = "closed"
    /\ clients[2] = "rejected"
    /\ GLOBAL_CONNECTION = 1
    /\ last.op = "disconnectDb"
    /\ last.by = 1

\* What holds of disconnectDb: it closes the client of the connection and
\* keeps GLOBAL_CONNECTION, and without a connection it does nothing.
DisconnectCloses ==
    [][DisconnectDb
          => /\ GLOBAL_CONNECTION' = GLOBAL_CONNECTION
             /\ dbCalls' = dbCalls
             /\ \A c \in Clients :
                    clients'[c] = IF c = GLOBAL_CONNECTION
                                  THEN "closed" ELSE clients[c]]_vars

(***************************************************************************)
(* Properties of a connect that fails.                                     *)
(***************************************************************************)

\* C39: a connectDb call whose client.connect() fails establishes no
\* connection: the step of the failure assigns nothing and resolves no
\* db() call, the call has ended with the error for good and its client is
\* never the connection; a connectDb call made later, with no connection,
\* goes on to connect; and the db() calls that were polling keep polling
\* and are resolved, after their wait, once a later call has connected.
FailedConnectNotConnected ==
    /\ [][\A c \in Clients :
              /\ (clients[c] = "connecting" /\ clients'[c] = "failed")
                     => /\ GLOBAL_CONNECTION' = GLOBAL_CONNECTION
                        /\ dbCalls' = dbCalls
                        /\ \A e \in Clients \ {c} : clients'[e] = clients[e]
              /\ clients[c] = "failed" => clients'[c] = "failed"
              /\ \A e \in Clients :
                     (/\ clients[e] = "failed"
                      /\ GLOBAL_CONNECTION = NoConnection
                      /\ clients[c] = "none"
                      /\ clients'[c] # "none")
                         => clients'[c] = "connecting"]_vars
    /\ [](\A c \in Clients : clients[c] = "failed" => GLOBAL_CONNECTION # c)
    /\ \A d \in DbCalls, c, e \in Clients :
           (/\ dbCalls[d].pc = "polling"
            /\ clients[c] = "failed"
            /\ clients[e] = "connected")
               ~> (/\ dbCalls[d].pc = "resolved"
                   /\ dbCalls[d].waited
                   /\ dbCalls[d].value \in Clients
                   /\ clients[dbCalls[d].value] = "connected")

\* The first connectDb call failed while two db() calls were polling; the
\* second call connected and both db() calls were resolved with its client.
FailedConnectNotConnectedWitness ==
    /\ clients[1] = "failed"
    /\ clients[2] = "connected"
    /\ GLOBAL_CONNECTION = 2
    /\ \A d \in {1, 2} :
           dbCalls[d] = [pc |-> "resolved", value |-> 2, waited |-> TRUE]

(***************************************************************************)
(* Properties of the store that keeps no changelog.                        *)
(***************************************************************************)

\* C40: on the store made with keepChangelog false no stored document has
\* a changelogs field, the document returned by insertOne has none, and
\* the update a commit sends is the $set of the update's fields alone: it
\* has no $push and its $set names no changelogs field.
NoChangelogWithout ==
    /\ \A i \in 1..Len(collection) : "changelogs" \notin DOMAIN collection[i]
    /\ (last.op = "insertOne" /\ last.err = "")
           => "changelogs" \notin DOMAIN last.ret[1]
    /\ \A h \in Handles :
           handles[h].state = "committing"
               => /\ DOMAIN handles[h].query.push = {}
                  /\ "changelogs" \notin DOMAIN handles[h].query.set

\* insertOne was handed a document with a changelogs value of the caller's
\* own and stored it as it was.
NoChangelogWithoutWitness ==
    /\ last.op = "insertOne"
    /\ last.err = ""
    /\ Len(collection) = 1
    /\ "changelogs" \in DOMAIN collection[1]
    /\ collection[1]["changelogs"] = ForgedChangelogs
    /\ "changelogs" \in DOMAIN last.ret[1]

\* What holds of this store: it never makes a changelog entry of its own.
\* A stored changelogs field is the value the caller of insertOne put into
\* its document, no step alters it, and no commit sends one.
NoChangelogMade ==
    /\ \A i \in 1..Len(collection) :
           "changelogs" \in DOMAIN collection[i]
               => collection[i]["changelogs"] = ForgedChangelogs
    /\ \A h \in Handles :
           handles[h].state = "committing"
               => /\ DOMAIN handles[h].query.push = {}
                  /\ "changelogs" \notin DOMAIN handles[h].query.set
====
